---- MODULE Spec2Model ----
(***************************************************************************)
(* A model of the meeting-transcript pipeline: the issue matcher           *)
(* (scripts/pmissues_monitor.py), the recording resolver (zoom_fetcher.py),*)
(* the batch publisher (github_uploader.py), the README table update       *)
(* (scripts/generate_readme_table.py) and the orchestration                *)
(* (scripts/main.py, scripts/download_transcripts.py).                     *)
(*                                                                         *)
(* Python str values are TLA+ strings; a character is a string of length 1.*)
(* Python None is the record None, a present string s is Some(s).          *)
(***************************************************************************)
EXTENDS Integers, Sequences, FiniteSets, TLC

VARIABLES
    \* --- date extraction (extract_date_from_text)
    text,           \* the text handed to extract_date_from_text
    ntokens,        \* how many tokens the text was built from
    extracted,      \* [done, result]: the value extract_date_from_text returned
    \* --- issue matching (parse_issue_for_meeting_info)
    title,          \* the issue title
    srcName,        \* the whitelist display name the title was derived from
    edits,          \* number of edits applied to the title
    caseSpaceOnly,  \* TRUE while every edit only changed letter case or spaces
    parsed,         \* [done, info]: the value parse_issue_for_meeting_info returned
    \* --- recording resolution (get_recordings_for_meeting_ids)
    resolve_pc,     \* "start", "listing", "select" or "done"
    meeting_ids,    \* argument: the candidate meeting IDs
    meeting_date,   \* argument: the date string
    search_window,  \* [from, to]: from_date and to_date, as day ordinals
    host_i,         \* index into WHITELISTED_HOSTS of the user being listed
    page_no,        \* the page of that user's listing being requested
    all_meetings,   \* the recordings collected so far
    listed,         \* every recording a 200 response carried, in arrival order
    api_errors,     \* how many listing calls answered with a status other than 200
    resolved,       \* [kind, recording]: what the call returned or that it raised
    \* --- batch upload (batch_upload_to_github)
    upload_pc,      \* the request the call makes next, or "done"
    token_set,      \* GITHUB_TOKEN is set in the environment
    folders_to_upload, \* argument: the folder paths
    unreadable,     \* the files that open() fails on
    server,         \* the repository: [branch_ref, trees, commits, next_sha]
    up,             \* the call's locals: the SHAs read and created, uploaded_files
    requests_made,  \* the requests made so far, each with the answer it got
    upload_result,  \* the list returned
    \* --- README table (update_readme_table)
    readme_md,         \* README.md: [exists, content]
    processed_meetings,      \* processed_meetings.json: the entries [key, data], in file order
    readme_edits,   \* how many pieces of text were appended to README.md
    update_log,     \* the calls of update_readme_table: [before, after, changed]
    \* --- a run (process_recent_meetings)
    run_pc,         \* the step the run is at, or "idle" between runs
    runs,           \* how many runs were started
    clock,          \* datetime.now(), in hours
    args,           \* [dry_run, force_reprocess, check_daily_run]
    environ,        \* [zoom_token, upload_repo]: what the environment provides
    run_logs,       \* logs/: [started, summary, failed_processing] of each run that logged
    cache_file,     \* processed_meetings.json on disk: the entries [key, data]
    readme_file,    \* README.md on disk: [exists, content]
    downloads,      \* the folders under downloads/: [path, files, metadata]
    repo_paths,     \* the paths of the files in the upload repository
    processed_cache,   \* local: the cache being updated
    ready_meetings, \* local matched_meetings: the meeting_info of the ready issues
    meeting_i,      \* local: the index of the meeting being processed
    zoom_recording, \* local: the recording of that meeting
    processed_folders, \* local: the folders downloaded in this run
    counts,         \* local: the four counters of the summary
    failed_matches, \* local: the entries for failed_processing_*.json
    trail,          \* what each run did with each meeting, oldest first
    run_outcome,    \* how the last run ended
    \* --- the poll of the tracker (get_meetings_ready_to_process)
    poll_pc,        \* the state being fetched ("open", "closed"), "filter", "done" or "raised"
    poll_now,       \* datetime.now() of line 220, in hours
    tracker_issues, \* the issues of the tracker's repository
    poll_page,      \* local page
    issues_fetched, \* local all_issues
    ready_issues,   \* the list returned
    \* --- the cache file (save_processed_meetings_cache, get_processed_meetings_cache)
    store_pc,       \* "start", "saved" or "loaded"
    cache_arg,      \* the dict passed to save_processed_meetings_cache
    json_file,      \* processed_meetings.json: [exists, content], content the text
    cache_loaded,   \* the value get_processed_meetings_cache returned
    \* --- two invocations of process_recent_meetings at a time
    inv_pc,         \* per invocation: "called", "setup", "loop", "save", "summary", "done" or "skipped"
    wall_clock,     \* the time of day, in hours
    log_dir,        \* logs/: [started, summary, owner] of each process_log file
    shared_cache,   \* processed_meetings.json: the entries [key, data]
    inv_cache,      \* per invocation: its local processed_cache
    \* --- runs of process_recent_meetings one after the other, seen from the cache
    rep_pc,         \* "idle" or "loop"
    rep_runs,       \* the calls so far
    rep_forced,     \* force_reprocess of the call
    rep_file,       \* processed_meetings.json: the entries [key, data]
    rep_cache,      \* local processed_cache
    rep_meetings,   \* local matched_meetings, as their keys
    rep_i,          \* the index of the meeting being processed
    rep_folders,    \* local processed_folders, as the keys of their meetings
    rep_log         \* [run, forced, key, result] of every meeting handled

dateVars    == <<text, ntokens, extracted>>
matchVars   == <<title, srcName, edits, caseSpaceOnly, parsed>>
resolveVars == <<resolve_pc, meeting_ids, meeting_date, search_window, host_i,
                 page_no, all_meetings, listed, api_errors, resolved>>
uploadVars  == <<upload_pc, token_set, folders_to_upload, unreadable, server, up,
                 requests_made, upload_result>>
readmeVars  == <<readme_md, processed_meetings, readme_edits, update_log>>
runVars     == <<run_pc, runs, clock, args, environ, run_logs, cache_file, readme_file,
                 downloads, repo_paths, processed_cache, ready_meetings, meeting_i,
                 zoom_recording, processed_folders, counts, failed_matches, trail,
                 run_outcome>>
pollVars    == <<poll_pc, poll_now, tracker_issues, poll_page, issues_fetched,
                 ready_issues>>
storeVars   == <<store_pc, cache_arg, json_file, cache_loaded>>
overlapVars == <<inv_pc, wall_clock, log_dir, shared_cache, inv_cache>>
repeatVars  == <<rep_pc, rep_runs, rep_forced, rep_file, rep_cache, rep_meetings, rep_i,
                 rep_folders, rep_log>>

-----------------------------------------------------------------------------
(* Python values *)

None    == [some |-> FALSE, val |-> ""]
Some(s) == [some |-> TRUE, val |-> s]

-----------------------------------------------------------------------------
(* str primitives *)

\* s[i-1] (the i-th character), or "" when there is none
ch(s, i) == IF 1 <= i /\ i <= Len(s) THEN SubSeq(s, i, i) ELSE ""

\* s[a:b] for 0 <= a, clamped to the string as Python slices are
slice(s, a, b) ==
    LET e == IF b < Len(s) THEN b ELSE Len(s)
    IN  IF a >= e THEN "" ELSE SubSeq(s, a + 1, e)

UpperAlpha == "ABCDEFGHIJKLMNOPQRSTUVWXYZ"
LowerAlpha == "abcdefghijklmnopqrstuvwxyz"
Digits     == {"0", "1", "2", "3", "4", "5", "6", "7", "8", "9"}
UpperSet   == {ch(UpperAlpha, i) : i \in 1..Len(UpperAlpha)}
LowerSet   == {ch(LowerAlpha, i) : i \in 1..Len(LowerAlpha)}
Whitespace == {" ", "\t", "\n"}

LowerOf == [c \in UpperSet |->
              ch(LowerAlpha, CHOOSE i \in 1..Len(UpperAlpha) : ch(UpperAlpha, i) = c)]
UpperOf == [c \in LowerSet |->
              ch(UpperAlpha, CHOOSE i \in 1..Len(LowerAlpha) : ch(LowerAlpha, i) = c)]

char_lower(c) == IF c \in UpperSet THEN LowerOf[c] ELSE c
char_upper(c) == IF c \in LowerSet THEN UpperOf[c] ELSE c

\* str.lower()
RECURSIVE str_lower(_)
str_lower(s) ==
    IF s = "" THEN "" ELSE char_lower(Head(s)) \o str_lower(Tail(s))

\* str.upper()
RECURSIVE str_upper(_)
str_upper(s) ==
    IF s = "" THEN "" ELSE char_upper(Head(s)) \o str_upper(Tail(s))

\* str.replace(c, "") for a single character c
RECURSIVE str_remove(_, _)
str_remove(s, c) ==
    IF s = "" THEN ""
    ELSE (IF Head(s) = c THEN "" ELSE Head(s)) \o str_remove(Tail(s), c)

\* sub in s
str_in(sub, s) ==
    \E i \in 0..(Len(s) - Len(sub)) : SubSeq(s, i + 1, i + Len(sub)) = sub

\* s.find(sub): the least 0-based offset of sub in s, or -1
str_find(sub, s) ==
    IF str_in(sub, s)
    THEN CHOOSE i \in 0..(Len(s) - Len(sub)) :
            /\ SubSeq(s, i + 1, i + Len(sub)) = sub
            /\ \A j \in 0..(i - 1) : SubSeq(s, j + 1, j + Len(sub)) # sub
    ELSE -1

\* str.strip()
RECURSIVE str_lstrip(_)
str_lstrip(s) ==
    IF s # "" /\ Head(s) \in Whitespace THEN str_lstrip(Tail(s)) ELSE s
RECURSIVE str_rstrip(_)
str_rstrip(s) ==
    IF s # "" /\ ch(s, Len(s)) \in Whitespace
    THEN str_rstrip(SubSeq(s, 1, Len(s) - 1)) ELSE s
str_strip(s) == str_rstrip(str_lstrip(s))

\* int(s) for a string of decimal digits
DigitValue(c) == CHOOSE n \in 0..9 : ch("0123456789", n + 1) = c
RECURSIVE str_int(_)
str_int(s) ==
    IF s = "" THEN 0
    ELSE 10 * str_int(SubSeq(s, 1, Len(s) - 1)) + DigitValue(ch(s, Len(s)))

IsDigits(s) == s # "" /\ \A i \in 1..Len(s) : ch(s, i) \in Digits

-----------------------------------------------------------------------------
(* Regular-expression primitives: offsets are 0-based, as in re.            *)

Letters   == UpperSet \cup LowerSet
WordChars == Letters \cup Digits \cup {"_"}

IsWordChar(c) == c \in WordChars

\* character classes \w, \d, \s, [^\n], [^|], [^_], [A-Za-z0-9\s-]
InClass(cls, c) ==
    CASE cls = "w" -> IsWordChar(c)
      [] cls = "d" -> c \in Digits
      [] cls = "s" -> c \in Whitespace
      [] cls = "n" -> c # "\n"
      [] cls = "p" -> c # "|"
      [] cls = "u" -> c # "_"
      [] cls = "T" -> c # "T"
      [] cls = "t" -> c \in Letters \/ c \in Digits \/ c \in Whitespace \/ c = "-"

\* the offset a greedy run of class cls starting at offset i ends at
\* (a run is followed sixteen characters at a time while it lasts)
RECURSIVE RunEnd(_, _, _)
RunEnd(t, i, cls) ==
    IF i + 16 <= Len(t) /\ \A k \in 1..16 : InClass(cls, ch(t, i + k))
    THEN RunEnd(t, i + 16, cls)
    ELSE IF i < Len(t) /\ InClass(cls, ch(t, i + 1)) THEN RunEnd(t, i + 1, cls) ELSE i

\* \b at offset i
WordBoundary(t, i) ==
    (i >= 1 /\ IsWordChar(ch(t, i))) # (i < Len(t) /\ IsWordChar(ch(t, i + 1)))

OrdinalSuffixes == {"st", "nd", "rd", "th"}

-----------------------------------------------------------------------------
(* extract_date_from_text: the five date_patterns.  PatternEnd(k, t, s) is  *)
(* the offset at which the k-th pattern, tried at offset s of t, ends its   *)
(* match, or -1.  Every quantifier of the patterns is followed by a         *)
(* character outside its class, so the greedy match is the only one.        *)

\* the offsets at which consecutive greedy runs of the classes end, the
\* first run starting at offset i
RECURSIVE RunsFrom(_, _, _)
RECURSIVE RunsAfter(_, _, _)
RunsFrom(t, i, classes) ==
    IF classes = <<>> THEN <<>>
    ELSE RunsAfter(t, RunEnd(t, i, Head(classes)), Tail(classes))
RunsAfter(t, e, classes) == <<e>> \o RunsFrom(t, e, classes)

\* (?:st|nd|rd|th)? at offset d, and ,? at offset o
AfterOrdinal(t, d) ==
    IF str_lower(slice(t, d, d + 2)) \in OrdinalSuffixes THEN d + 2 ELSE d
AfterComma(t, o) == IF ch(t, o + 1) = "," THEN o + 1 ELSE o

\* the word ends at r[1], the white space at r[2], the day at r[3], the comma
\* at c, the white space at q[1] and the year at q[2]
Pattern1Final(t, s, r, c, q) ==
    IF /\ WordBoundary(t, s)
       /\ r[1] - s \in 3..9
       /\ r[2] > r[1]
       /\ r[3] - r[2] \in 1..2
       /\ q[1] > c
       /\ q[2] - q[1] = 4
       /\ WordBoundary(t, q[2])
    THEN q[2] ELSE -1

Pattern1Tail(t, s, r, c) == Pattern1Final(t, s, r, c, RunsFrom(t, c, <<"s", "d">>))

Pattern1Rest(t, s, r) == Pattern1Tail(t, s, r, AfterComma(t, AfterOrdinal(t, r[3])))

\* \b(\w{3,9}\s+\d{1,2}(?:st|nd|rd|th)?,?\s+\d{4})\b   with re.IGNORECASE
Pattern1End(t, s) == Pattern1Rest(t, s, RunsFrom(t, s, <<"w", "s", "d">>))

\* the day ends at r[1], the white space at r[2], the word at r[3], the white
\* space at r[4] and the year at r[5]
Pattern2Final(t, s, r) ==
    IF /\ WordBoundary(t, s)
       /\ r[1] - s \in 1..2
       /\ r[2] > r[1]
       /\ r[3] - r[2] \in 3..9
       /\ r[4] > r[3]
       /\ r[5] - r[4] = 4
       /\ WordBoundary(t, r[5])
    THEN r[5] ELSE -1

\* \b(\d{1,2}\s+\w{3,9}\s+\d{4})\b
Pattern2End(t, s) == Pattern2Final(t, s, RunsFrom(t, s, <<"d", "s", "w", "s", "d">>))

\* \b(\d{4}-\d{2}-\d{2})\b
Pattern3End(t, s) ==
    IF /\ WordBoundary(t, s)
       /\ s + 10 <= Len(t)
       /\ IsDigits(slice(t, s, s + 4))
       /\ ch(t, s + 5) = "-"
       /\ IsDigits(slice(t, s + 5, s + 7))
       /\ ch(t, s + 8) = "-"
       /\ IsDigits(slice(t, s + 8, s + 10))
       /\ WordBoundary(t, s + 10)
    THEN s + 10 ELSE -1

\* three runs of digits with one character between them: the offsets at
\* which they end
DigitRunsLast(t, d1, d2) == <<d1, d2, RunEnd(t, d2 + 1, "d")>>
DigitRunsNext(t, d1) == DigitRunsLast(t, d1, RunEnd(t, d1 + 1, "d"))
DigitRuns(t, s) == DigitRunsNext(t, RunEnd(t, s, "d"))

Pattern4Final(t, s, r) ==
    IF /\ WordBoundary(t, s)
       /\ r[1] - s \in 1..2
       /\ ch(t, r[1] + 1) = "/"
       /\ r[2] - (r[1] + 1) \in 1..2
       /\ ch(t, r[2] + 1) = "/"
       /\ r[3] - (r[2] + 1) = 4
       /\ WordBoundary(t, r[3])
    THEN r[3] ELSE -1

\* \b(\d{1,2}/\d{1,2}/\d{4})\b
Pattern4End(t, s) == Pattern4Final(t, s, DigitRuns(t, s))

Pattern5Final(t, s, r) ==
    IF /\ WordBoundary(t, s)
       /\ r[1] - s \in 1..2
       /\ ch(t, r[1] + 1) \in {"-", "/", "."}
       /\ r[2] - (r[1] + 1) \in 1..2
       /\ ch(t, r[2] + 1) \in {"-", "/", "."}
       /\ r[3] - (r[2] + 1) = 2
       /\ WordBoundary(t, r[3])
    THEN r[3] ELSE -1

\* \b(\d{1,2}[-/.]\d{1,2}[-/.]\d{2})\b
Pattern5End(t, s) == Pattern5Final(t, s, DigitRuns(t, s))

NumDatePatterns == 5

PatternEnd(k, t, s) ==
    CASE k = 1 -> Pattern1End(t, s)
      [] k = 2 -> Pattern2End(t, s)
      [] k = 3 -> Pattern3End(t, s)
      [] k = 4 -> Pattern4End(t, s)
      [] k = 5 -> Pattern5End(t, s)

\* re.search(date_patterns[k], text): is there a match at all
PatternMatches(k, t) == \E s \in 0..(Len(t) - 1) : PatternEnd(k, t, s) # -1

\* match.group(1) of re.search: the match at the leftmost offset
GroupAt(k, t, s) == SubSeq(t, s + 1, PatternEnd(k, t, s))
PatternGroup(k, t) ==
    GroupAt(k, t, CHOOSE s \in 0..(Len(t) - 1) :
                    /\ PatternEnd(k, t, s) # -1
                    /\ \A r \in 0..(s - 1) : PatternEnd(k, t, r) = -1)

\* re.sub(r'(\d+)(st|nd|rd|th)', r'\1', s): a lower-case ordinal suffix that
\* follows a digit is dropped (this re.sub is case-sensitive)
RECURSIVE StripOrdinalsFrom(_, _)
StripOrdinalsFrom(s, i) ==
    IF i > Len(s) THEN ""
    ELSE IF /\ i >= 2
            /\ ch(s, i - 1) \in Digits
            /\ slice(s, i - 1, i + 1) \in OrdinalSuffixes
         THEN StripOrdinalsFrom(s, i + 2)
         ELSE ch(s, i) \o StripOrdinalsFrom(s, i + 1)
strip_ordinals(s) == StripOrdinalsFrom(s, 1)

\* re.sub(r'\s+', ' ', s): each run of whitespace becomes one space
RECURSIVE CollapseFrom(_, _)
CollapseFrom(s, i) ==
    IF i > Len(s) THEN ""
    ELSE IF ch(s, i) \in Whitespace
         THEN " " \o CollapseFrom(s, RunEnd(s, i, "s") + 1)
         ELSE ch(s, i) \o CollapseFrom(s, i + 1)
collapse_whitespace(s) == CollapseFrom(s, 1)

\* lines 29-30 of extract_date_from_text, lines 130-131 of parse_meeting_datetime
clean_date_str(s) == str_strip(collapse_whitespace(strip_ordinals(s)))

-----------------------------------------------------------------------------
(* datetime.strptime.  _strptime turns the format into a regular expression *)
(* (a directive becomes a group, white space becomes \s+, any other         *)
(* character itself), matches it case-insensitively against the whole       *)
(* string, and builds a date, which must exist in the calendar.             *)

MonthNames ==
    <<"january", "february", "march", "april", "may", "june", "july",
      "august", "september", "october", "november", "december">>

MonthAbbrs == [k \in 1..12 |-> SubSeq(MonthNames[k], 1, 3)]

IsLeapYear(y) == (y % 4 = 0 /\ y % 100 # 0) \/ y % 400 = 0

DaysInMonth(m, y) ==
    CASE m \in {4, 6, 9, 11} -> 30
      [] m = 2 -> IF IsLeapYear(y) THEN 29 ELSE 28
      [] OTHER -> 31

\* the tokens [len, val] a directive can take at offset pos of s
DirectiveTokens(s, pos, code) ==
    LET digitTokens(lens) ==
            {[len |-> L, val |-> str_int(slice(s, pos, pos + L))] :
                L \in {L \in lens : /\ pos + L <= Len(s)
                                    /\ IsDigits(slice(s, pos, pos + L))}}
        nameTokens(names) ==
            {[len |-> Len(names[k]), val |-> k] :
                k \in {k \in 1..12 :
                        str_lower(slice(s, pos, pos + Len(names[k]))) = names[k]}}
    IN  CASE code = "d" ->      \* 3[0-1]|[1-2]\d|0[1-9]|[1-9]| [1-9]
                {tk \in digitTokens({1, 2}) : tk.val \in 1..31}
                \cup (IF ch(s, pos + 1) = " " /\ ch(s, pos + 2) \in Digits \ {"0"}
                      THEN {[len |-> 2, val |-> str_int(ch(s, pos + 2))]} ELSE {})
          [] code = "m" ->      \* 1[0-2]|0[1-9]|[1-9]
                {tk \in digitTokens({1, 2}) : tk.val \in 1..12}
          [] code = "Y" ->      \* \d\d\d\d
                digitTokens({4})
          [] code = "y" ->      \* \d\d, 69-99 is 19xx and 00-68 is 20xx
                {[len |-> 2, val |-> IF tk.val >= 69 THEN 1900 + tk.val ELSE 2000 + tk.val] :
                    tk \in digitTokens({2})}
          [] code = "B" -> nameTokens(MonthNames)
          [] code = "b" -> nameTokens(MonthAbbrs)

\* the parse states [pos, Y, m, d] after the format from its j-th character on
RECURSIVE StrptimeFrom(_, _, _, _)
StrptimeFrom(s, fmt, j, states) ==
    IF j > Len(fmt) \/ states = {} THEN states
    ELSE LET c == ch(fmt, j)
             code == ch(fmt, j + 1)
             field == CASE code \in {"B", "b", "m"} -> "m"
                        [] code \in {"Y", "y"} -> "Y"
                        [] OTHER -> "d"
         IN  IF c = "%"
             THEN StrptimeFrom(s, fmt, j + 2,
                    UNION {{[st EXCEPT !.pos = st.pos + tk.len, ![field] = tk.val] :
                                tk \in DirectiveTokens(s, st.pos, code)} :
                            st \in states})
             ELSE IF c \in Whitespace
             THEN StrptimeFrom(s, fmt, j + 1,
                    UNION {{[st EXCEPT !.pos = e] :
                                e \in (st.pos + 1)..RunEnd(s, st.pos, "s")} :
                            st \in states})
             ELSE StrptimeFrom(s, fmt, j + 1,
                    {[st EXCEPT !.pos = st.pos + 1] :
                        st \in {st \in states : ch(s, st.pos + 1) = c}})

\* the dates datetime.strptime(s, fmt) can return: empty when it raises
strptime(s, fmt) ==
    {[Y |-> st.Y, m |-> st.m, d |-> st.d] :
        st \in {st \in StrptimeFrom(s, fmt, 1, {[pos |-> 0, Y |-> 1900, m |-> 1, d |-> 1]}) :
                    /\ st.pos = Len(s)
                    /\ st.Y >= 1
                    /\ st.d <= DaysInMonth(st.m, st.Y)}}

\* some format of the list parses s
ParsesUnder(s, formats) ==
    \E i \in 1..Len(formats) : strptime(s, formats[i]) # {}

-----------------------------------------------------------------------------
(* extract_date_from_text *)

\* test_formats, lines 33-44
TEST_FORMATS ==
    <<"%B %d %Y", "%B %d, %Y", "%b %d %Y", "%b %d, %Y", "%d %B %Y",
      "%d %b %Y", "%Y-%m-%d", "%m/%d/%Y", "%m-%d-%Y", "%m-%d-%y">>

\* a variant of validate_date_str that drops a string no format parses
validate_date_str_strict(date_str) ==
    IF ParsesUnder(date_str, TEST_FORMATS) THEN Some(date_str) ELSE None

\* lines 46-54: the string is returned when a format parses it, and
\* ("If no format worked, still return the string") when none does
validate_date_str(date_str) ==
    IF ParsesUnder(date_str, TEST_FORMATS) THEN Some(date_str) ELSE Some(date_str)

\* lines 24-56: the loop over date_patterns from the k-th on
RECURSIVE ExtractWithPatterns(_, _)
ExtractWithPatterns(t, k) ==
    IF k > NumDatePatterns THEN None
    ELSE IF PatternMatches(k, t)
         THEN validate_date_str(clean_date_str(PatternGroup(k, t)))
         ELSE ExtractWithPatterns(t, k + 1)

extract_date_from_text(t) == ExtractWithPatterns(t, 1)

-----------------------------------------------------------------------------
(* meetings_config.py *)

\* the dict WHITELISTED_MEETINGS in insertion order, which is the order a
\* Python dict iterates in
WHITELISTED_MEETINGS ==
    <<
      [meeting_id |-> "859 6920 2880", name |-> "All Core Devs - Consensus (ACDC)", owner |-> "Nico"],
      [meeting_id |-> "842 5123 7513", name |-> "All Core Devs - Testing (ACDT)", owner |-> "Nico"],
      [meeting_id |-> "854 5172 3466", name |-> "All Core Devs - Execution (ACDE)", owner |-> "zoom-bot"],
      [meeting_id |-> "884 7930 8162", name |-> "All Core Devs - Testing (ACDT)", owner |-> "zoom-bot"],
      [meeting_id |-> "842 6574 5580", name |-> "FOCIL", owner |-> "Nico"],
      [meeting_id |-> "879 4371 9720", name |-> "RPC standards", owner |-> "zoom-bot"],
      [meeting_id |-> "865 3706 0608", name |-> "ePBS (EIP 7732)", owner |-> "Nico"],
      [meeting_id |-> "851 1464 8304", name |-> "EIP Editing Office Hour", owner |-> "zoom-bot"],
      [meeting_id |-> "899 1066 9821", name |-> "PQ Interop", owner |-> "zoom-bot"],
      [meeting_id |-> "889 0262 7473", name |-> "EIP-7928", owner |-> "zoom-bot"],
      [meeting_id |-> "891 5137 3845", name |-> "Trustless Agents", owner |-> "zoom-bot"],
      [meeting_id |-> "895 6907 7828", name |-> "L2 Interop", owner |-> "Josh Rudolf"],
      [meeting_id |-> "882 6983 6469", name |-> "All Core Devs - Execution (ACDE)", owner |-> "Nico"],
      [meeting_id |-> "837 0323 9965", name |-> "All Core Devs - Consensus (ACDC)", owner |-> "Tim Beiko"],
      [meeting_id |-> "871 9809 0010", name |-> "ETH simulate", owner |-> "Nico"],
      [meeting_id |-> "875 6921 0985", name |-> "ePBS (EIP 7732)", owner |-> "Tim Beiko"],
      [meeting_id |-> "864 6616 9680", name |-> "All Core Devs - Testing (ACDT)", owner |-> "Matt Garnett"],
      [meeting_id |-> "883 1710 1307", name |-> "EVM Resource Pricing", owner |-> "Nico"],
      [meeting_id |-> "831 7171 3683", name |-> "Portal", owner |-> "Nico"],
      [meeting_id |-> "913 4859 2283", name |-> "All Core Devs - Execution (ACDE)", owner |-> "Tim Beiko"],
      [meeting_id |-> "822 2793 8777", name |-> "All Wallet Devs", owner |-> "Nico"],
      [meeting_id |-> "857 1853 2657", name |-> "Roll Call", owner |-> "Nico"]
    >>

WhitelistIndexes == 1..Len(WHITELISTED_MEETINGS)

-----------------------------------------------------------------------------
(* parse_issue_for_meeting_info *)

\* title.lower().replace(" ", ""), lines 75, 81 and 86
normalize_name(s) == str_remove(str_lower(s), " ")

\* meeting_name.split("(")[0].strip() if "(" in meeting_name else meeting_name
meeting_name_base(meeting_name) ==
    IF str_in("(", meeting_name)
    THEN str_strip(slice(meeting_name, 0, str_find("(", meeting_name)))
    ELSE meeting_name

\* the three forms of every whitelist name that line 88 looks for
WhitelistForms ==
    [i \in WhitelistIndexes |->
        [lower |-> str_lower(WHITELISTED_MEETINGS[i].name),
         normalized |-> normalize_name(WHITELISTED_MEETINGS[i].name),
         base_normalized |->
            normalize_name(meeting_name_base(WHITELISTED_MEETINGS[i].name))]]

\* a variant of name_matches that looks for the name with its spaces only
name_matches_exact(i, title_lower, title_normalized) ==
    str_in(WhitelistForms[i].lower, title_lower)

\* lines 88-92: any([...]) over the exact, the space-insensitive and the
\* pre-parenthesis form
name_matches(i, title_lower, title_normalized) ==
    \/ str_in(WhitelistForms[i].lower, title_lower)
    \/ str_in(WhitelistForms[i].normalized, title_normalized)
    \/ str_in(WhitelistForms[i].base_normalized, title_normalized)

\* lines 78-102: the whitelist indexes appended to matched_meetings, from i on
RECURSIVE MatchedFrom(_, _, _)
MatchedFrom(i, title_lower, title_normalized) ==
    IF i > Len(WHITELISTED_MEETINGS) THEN <<>>
    ELSE (IF name_matches(i, title_lower, title_normalized) THEN <<i>> ELSE <<>>)
         \o MatchedFrom(i + 1, title_lower, title_normalized)

matched_meetings(issue_title) ==
    MatchedFrom(1, str_lower(issue_title), normalize_name(issue_title))

\* a variant of meeting_number_of that takes the rightmost '#' that a digit
\* follows
meeting_number_last(issue_title) ==
    LET hits == {s \in 0..(Len(issue_title) - 1) :
                    /\ ch(issue_title, s + 1) = "#"
                    /\ ch(issue_title, s + 2) \in Digits}
        s == CHOOSE s \in hits : \A r \in hits : s >= r
    IN  IF hits = {} THEN None
        ELSE Some(slice(issue_title, s + 1, RunEnd(issue_title, s + 1, "d")))

\* re.search(r'#(\d+)', title), lines 69-72: the digits after the leftmost
\* '#' that a digit follows
meeting_number_of(issue_title) ==
    LET hits == {s \in 0..(Len(issue_title) - 1) :
                    /\ ch(issue_title, s + 1) = "#"
                    /\ ch(issue_title, s + 2) \in Digits}
        s == CHOOSE s \in hits : \A r \in hits : s <= r
    IN  IF hits = {} THEN None
        ELSE Some(slice(issue_title, s + 1, RunEnd(issue_title, s + 1, "d")))

\* lines 64-66: the date of the title, else of the first 500 characters of
\* a body that is neither None nor empty
date_of_body_unless(in_title, issue) ==
    IF ~in_title.some /\ issue.body.some /\ issue.body.val # ""
    THEN extract_date_from_text(slice(issue.body.val, 0, 500))
    ELSE in_title
meeting_date_of(issue) == date_of_body_unless(extract_date_from_text(issue.title), issue)

\* the return value None of parse_issue_for_meeting_info
NoMeetingInfo ==
    [matched |-> FALSE, possible_meeting_ids |-> <<>>, meeting_name |-> "",
     meeting_number |-> None, date_str |-> None, issue_number |-> 0,
     issue_title |-> "", closed_at |-> None, owners |-> {}]

first_only(m) == IF m = <<>> THEN <<>> ELSE <<m[1]>>

\* lines 104-116: the dict returned for the whitelist indexes m
meeting_info_of(issue, m) ==
    IF m = <<>> THEN NoMeetingInfo
    ELSE [matched |-> TRUE,
          possible_meeting_ids |->
            [k \in 1..Len(m) |-> WHITELISTED_MEETINGS[m[k]].meeting_id],
          meeting_name |-> WHITELISTED_MEETINGS[m[1]].name,
          meeting_number |-> meeting_number_of(issue.title),
          date_str |-> meeting_date_of(issue),
          issue_number |-> issue.number,
          issue_title |-> issue.title,
          closed_at |-> issue.closed_at,
          owners |-> {WHITELISTED_MEETINGS[m[k]].owner : k \in 1..Len(m)}]

\* a variant of parse_issue_for_meeting_info that keeps the first match only
parse_issue_first_match(issue) ==
    meeting_info_of(issue, first_only(matched_meetings(issue.title)))

\* lines 58-116
parse_issue_for_meeting_info(issue) ==
    meeting_info_of(issue, matched_meetings(issue.title))

-----------------------------------------------------------------------------
(* zoom_fetcher.py *)

\* WHITELISTED_HOSTS, lines 13-19
WHITELISTED_HOSTS ==
    <<"zoom-bot@ethereum.org", "nicolas.consigny@ethereum.org",
      "tim.beiko@ethereum.org", "matt.garnett@ethereum.org",
      "joshua.rudolf@ethereum.org">>

\* date.toordinal(): days since 0001-01-01, that day being 1
RECURSIVE DaysBeforeMonth(_, _)
DaysBeforeMonth(m, y) ==
    IF m = 1 THEN 0 ELSE DaysBeforeMonth(m - 1, y) + DaysInMonth(m - 1, y)

date_ordinal(dt) ==
    LET y == dt.Y - 1
    IN  365 * y + (y \div 4) - (y \div 100) + (y \div 400)
        + DaysBeforeMonth(dt.m, dt.Y) + dt.d

\* the formats of line 123
RESOLVER_FORMATS == <<"%B %d, %Y", "%b %d, %Y", "%Y-%m-%d", "%m/%d/%Y">>

\* dateutil.parser.parse, line 131, for the date strings the date patterns
\* produce: the month-name and the numeric forms parse, anything else raises
DATEUTIL_FORMATS ==
    <<"%b %d %Y", "%b %d, %Y", "%B %d %Y", "%B %d, %Y", "%d %b %Y", "%d %B %Y",
      "%Y-%m-%d", "%m/%d/%Y", "%m-%d-%Y", "%m-%d-%y", "%m/%d/%y">>

RECURSIVE FirstParse(_, _, _)
FirstParse(s, formats, i) ==
    IF i > Len(formats) THEN {}
    ELSE IF strptime(s, formats[i]) # {} THEN strptime(s, formats[i])
         ELSE FirstParse(s, formats, i + 1)

dateutil_parse(s) == FirstParse(s, DATEUTIL_FORMATS, 1)

\* a variant of parse_target_date that falls back to a fixed day
parse_target_date_or_default(date_str) ==
    LET by_format == FirstParse(str_remove(date_str, ","), RESOLVER_FORMATS, 1)
        parsed_any == IF by_format # {} THEN by_format ELSE dateutil_parse(date_str)
    IN  IF parsed_any # {} THEN parsed_any ELSE {[Y |-> 2025, m |-> 9, d |-> 26]}

\* lines 121-138: target_date, or the empty set when the except clause is taken;
\* the formats are tried on the string without its commas, dateutil on the
\* string itself
parse_target_date(date_str) ==
    LET by_format == FirstParse(str_remove(date_str, ","), RESOLVER_FORMATS, 1)
    IN  IF by_format # {} THEN by_format ELSE dateutil_parse(date_str)

WINDOW_DAYS == 2

\* lines 134-135: from_date and to_date
window_of(target) ==
    [from |-> date_ordinal(target) - WINDOW_DAYS, to |-> date_ordinal(target) + WINDOW_DAYS]

\* mid.replace(" ", "").replace("-", ""), lines 156 and 162
clean_id(mid) == str_remove(str_remove(mid, " "), "-")

NoDuration == [some |-> FALSE, val |-> 0]
Minutes(n) == [some |-> TRUE, val |-> n]

\* x.get("duration", 0)
duration_of(meeting) == IF meeting.duration.some THEN meeting.duration.val ELSE 0

\* line 171: zoom_id_clean in clean_meeting_ids
id_matches(meeting, ids) ==
    \E i \in 1..Len(ids) : clean_id(meeting.id) = clean_id(ids[i])

\* lines 173-176: the first of meeting_ids that the recording's ID equals
matched_id(meeting, ids) ==
    ids[CHOOSE i \in 1..Len(ids) :
            /\ clean_id(meeting.id) = clean_id(ids[i])
            /\ \A j \in 1..(i - 1) : clean_id(meeting.id) # clean_id(ids[j])]

\* lines 160-178: all_matching_recordings
RECURSIVE matching_recordings(_, _)
matching_recordings(meetings, ids) ==
    IF meetings = <<>> THEN <<>>
    ELSE (IF id_matches(Head(meetings), ids)
          THEN <<[Head(meetings) EXCEPT !.matched_meeting_id = matched_id(Head(meetings), ids)]>>
          ELSE <<>>)
         \o matching_recordings(Tail(meetings), ids)

\* a variant of longest_from that lets a later recording of equal duration win
RECURSIVE longest_from_last(_, _)
longest_from_last(best, rest) ==
    IF rest = <<>> THEN best
    ELSE longest_from_last(
            IF duration_of(Head(rest)) >= duration_of(best) THEN Head(rest) ELSE best,
            Tail(rest))

\* max(all_matching_recordings, key=...), line 188: a later recording replaces
\* the best one only when its key is greater
RECURSIVE longest_from(_, _)
longest_from(best, rest) ==
    IF rest = <<>> THEN best
    ELSE longest_from(
            IF duration_of(Head(rest)) > duration_of(best) THEN Head(rest) ELSE best,
            Tail(rest))

NoRecording ==
    [id |-> "", topic |-> "", duration |-> NoDuration, start_time |-> "",
     host_email |-> "", matched_meeting_id |-> "", files |-> <<>>]

\* lines 150-193: the value returned once the listings are in
select_recording(meetings, ids) ==
    LET matching == matching_recordings(meetings, ids)
    IN  IF matching = <<>>
        THEN [kind |-> "none", recording |-> NoRecording]
        ELSE [kind |-> "recording",
              recording |-> longest_from(Head(matching), Tail(matching))]

-----------------------------------------------------------------------------
(* github_uploader.py *)

\* the answer to a request: the status code, or raised when requests raised
\* a RequestException; applied tells whether the server carried the request out
Response(status_code, raised, applied) ==
    [status_code |-> status_code, raised |-> raised, applied |-> applied]

\* the answers to a GET: 200, an error status, or an exception
GetResponses ==
    {Response(200, FALSE, TRUE), Response(404, FALSE, FALSE),
     Response(500, FALSE, FALSE), Response(0, TRUE, FALSE)}

\* the answers to a POST that creates an object: 201 when it was created, an
\* error status when it was not, an exception before the request arrived, or
\* an exception (a timeout) after the server created the object
PostResponses ==
    {Response(201, FALSE, TRUE), Response(422, FALSE, FALSE),
     Response(500, FALSE, FALSE), Response(0, TRUE, FALSE), Response(0, TRUE, TRUE)}

\* the answers to the PATCH of the branch reference, likewise
PatchResponses ==
    {Response(200, FALSE, TRUE), Response(422, FALSE, FALSE),
     Response(500, FALSE, FALSE), Response(0, TRUE, FALSE), Response(0, TRUE, TRUE)}

\* a variant of read_ok that takes every answer for a success
read_ok_any(response) == TRUE

\* lines 43-49, 61-67, 82-88: the call goes on after a GET
read_ok(response) == ~response.raised /\ response.status_code = 200

\* lines 150-156, 180-186: the call goes on after a POST
created_ok(response) == ~response.raised /\ response.status_code = 201

\* lines 205-211: the PATCH succeeded
updated_ok(response) == ~response.raised /\ response.status_code = 200

\* the files folder_path.rglob("*") yields, line 108
DiskFiles(folder_path) ==
    CASE folder_path = "downloads/ACDT/Call-056_2025-09-26" ->
            <<"downloads/ACDT/Call-056_2025-09-26/transcript.vtt",
              "downloads/ACDT/Call-056_2025-09-26/chat.txt",
              "downloads/ACDT/Call-056_2025-09-26/metadata.json">>
      [] folder_path = "downloads/ACDE/Call-221_2025-09-25" ->
            <<"downloads/ACDE/Call-221_2025-09-25/recording.mp4">>
      [] OTHER -> <<>>

\* str(file_path.relative_to(Path("downloads"))), lines 111-112
github_path(file_path) == slice(file_path, Len("downloads/"), Len(file_path))

\* file_path.suffix: from the last dot of the file name on
suffix_of(file_path) ==
    LET dots == {k \in 1..Len(file_path) :
                    /\ ch(file_path, k) = "."
                    /\ \A j \in (k + 1)..Len(file_path) : ch(file_path, j) \notin {".", "/"}}
    IN  IF dots = {} THEN ""
        ELSE slice(file_path, (CHOOSE k \in dots : TRUE) - 1, Len(file_path))

\* line 126
is_text(file_path) == suffix_of(file_path) \in {".txt", ".json", ".vtt", ".md"}

\* lines 108-135, for one folder: a tree item for each file that can be read
RECURSIVE items_of_files(_, _)
items_of_files(files, cannot_read) ==
    IF files = <<>> THEN <<>>
    ELSE (IF Head(files) \in cannot_read THEN <<>>
          ELSE <<[path |-> github_path(Head(files)),
                  content |-> IF is_text(Head(files)) THEN "utf-8" ELSE "base64"]>>)
         \o items_of_files(Tail(files), cannot_read)

\* lines 102-135: tree_items
RECURSIVE build_tree_items(_, _)
build_tree_items(folders, cannot_read) ==
    IF folders = <<>> THEN <<>>
    ELSE items_of_files(DiskFiles(Head(folders)), cannot_read)
         \o build_tree_items(Tail(folders), cannot_read)

\* uploaded_files: the path of every tree item, line 135
paths_of(tree_items) == [k \in 1..Len(tree_items) |-> tree_items[k].path]

-----------------------------------------------------------------------------
(* scripts/generate_readme_table.py *)

\* s.split(c) for a single character c, given the class of the other characters
RECURSIVE split_on(_, _)
split_on(s, cls) ==
    LET k == RunEnd(s, 0, cls)
    IN  IF k >= Len(s) THEN <<s>>
        ELSE <<slice(s, 0, k)>> \o split_on(slice(s, k + 1, Len(s)), cls)

\* str(n) for n >= 0
RECURSIVE int_str(_)
int_str(n) ==
    IF n < 10 THEN ch("0123456789", n + 1)
    ELSE int_str(n \div 10) \o ch("0123456789", (n % 10) + 1)

\* str.zfill(width)
RECURSIVE zfill(_, _)
zfill(s, width) == IF Len(s) >= width THEN s ELSE zfill("0" \o s, width)

HEADING == "# ACD calls"

\* the offset at which the pattern of lines 127 and 281, tried at offset s,
\* ends the separator line, or -1: the heading, white space that ends in an
\* empty line, a line |...| and a line | ---...|
header_end_at(content, s) ==
    LET i  == s + Len(HEADING)
        e  == RunEnd(content, i, "s")
        n1 == RunEnd(content, e, "n")
        n2 == RunEnd(content, n1 + 1, "n")
    IN  IF /\ slice(content, s, i) = HEADING
           /\ e - i >= 2
           /\ slice(content, e - 2, e) = "\n\n"
           /\ ch(content, e + 1) = "|"
           /\ n1 < Len(content)
           /\ n1 - e >= 3
           /\ ch(content, n1) = "|"
           /\ slice(content, n1 + 1, n1 + 6) = "| ---"
           /\ n2 < Len(content)
           /\ n2 - (n1 + 1) >= 7
           /\ ch(content, n2) = "|"
        THEN n2 + 1
        ELSE -1

\* the end of the match that starts leftmost, or -1
leftmost_end(content, starts) ==
    IF starts = {} THEN -1
    ELSE header_end_at(content, CHOOSE s \in starts : \A r \in starts : s <= r)

\* re.search of that pattern: the end of the leftmost match, or -1
header_end(content) ==
    leftmost_end(content,
                 {s \in 0..(Len(content) - Len(HEADING)) : header_end_at(content, s) >= 0})

\* ((?:\|[^\n]+\|\n)*) at offset p: the offset the run of row lines ends at
RECURSIVE rows_end(_, _)
rows_end(content, p) ==
    LET n == RunEnd(content, p, "n")
    IN  IF ch(content, p + 1) = "|" /\ n < Len(content) /\ n - p >= 3 /\ ch(content, n) = "|"
        THEN rows_end(content, n + 1)
        ELSE p

ACD_TYPES == {"ACDE", "ACDC", "ACDT"}

\* a variant of row_meeting that reads the type and the number one column early
row_meeting_shifted(line) ==
    LET parts == split_on(line, "p")
    IN  IF /\ slice(str_strip(line), 0, 1) = "|"
           /\ Len(parts) >= 4
           /\ str_strip(parts[2]) \in ACD_TYPES
           /\ IsDigits(str_strip(parts[3]))
        THEN {<<str_strip(parts[2]), str_strip(parts[3])>>}
        ELSE {}

\* lines 133-141: the (type, num) a table line stands for, if any
row_meeting(line) ==
    LET parts == split_on(line, "p")
    IN  IF /\ slice(str_strip(line), 0, 1) = "|"
           /\ Len(parts) >= 4
           /\ str_strip(parts[3]) \in ACD_TYPES
           /\ IsDigits(str_strip(parts[4]))
        THEN {<<str_strip(parts[3]), str_strip(parts[4])>>}
        ELSE {}

\* lines 132-141: the meetings of the lines of table_content
meetings_of_lines(lines) == UNION {row_meeting(lines[k]) : k \in 1..Len(lines)}

\* lines 128-141, the header ending at offset h
existing_after(readme_content, h) ==
    IF h < 0 THEN {}
    ELSE meetings_of_lines(
            split_on(slice(readme_content, h, rows_end(readme_content, h)), "n"))

\* lines 118-143
parse_existing_meetings(readme_content) ==
    existing_after(readme_content, header_end(readme_content))

MONTH_ABBR ==
    <<"Jan", "Feb", "Mar", "Apr", "May", "Jun", "Jul", "Aug", "Sep", "Oct", "Nov", "Dec">>

\* date_obj.strftime('%d %b %Y'), line 153
strftime_d_b_Y(dt) ==
    zfill(int_str(dt.d), 2) \o " " \o MONTH_ABBR[dt.m] \o " " \o zfill(int_str(dt.Y), 4)

\* lines 151-155, parses being what strptime made of date
formatted_or_raw(date, parses) ==
    IF parses = {} THEN date ELSE strftime_d_b_Y(CHOOSE dt \in parses : TRUE)

\* lines 150-157
formatted_date_of(date) ==
    IF ~date.some \/ date.val = "" THEN "-"
    ELSE formatted_or_raw(date.val, strptime(date.val, "%Y-%m-%d"))

\* str(date) inside an f-string
py_str(value) == IF value.some THEN value.val ELSE "None"

\* the entry of forkcast_calls under (type, num), or None
forkcast_url(forkcast_calls, meeting_type, num) ==
    IF \E c \in forkcast_calls : c.type = meeting_type /\ c.number = num
    THEN Some((CHOOSE c \in forkcast_calls : c.type = meeting_type /\ c.number = num).url)
    ELSE None

\* lines 168-182
summary_of(forkcast_calls, meeting_type, num) ==
    LET plain  == forkcast_url(forkcast_calls, meeting_type, num)
        padded == forkcast_url(forkcast_calls, meeting_type, zfill(num, 3))
    IN  IF plain.some THEN "[forkcast](" \o plain.val \o ")"
        ELSE IF meeting_type = "ACDT" /\ Len(num) < 3 /\ padded.some
             THEN "[forkcast](" \o padded.val \o ")"
             ELSE "-"

REPO_OWNER == "nixorokish"
REPO_NAME  == "eth-protocol-transcripts"

\* lines 146-200; links is what fetch_links_from_issue returned
generate_row(meeting_type, num, date, issue_num, forkcast_calls, links) ==
    LET issue_link == IF issue_num = "" THEN "-"
                      ELSE "[#" \o issue_num \o "](https://github.com/ethereum/pm/issues/"
                           \o issue_num \o ")"
        discussion == IF links.ethmag_url.some
                      THEN "[EthMag](" \o links.ethmag_url.val \o ")" ELSE "-"
        recording  == IF links.youtube_url.some
                      THEN "[video](" \o links.youtube_url.val \o ")" ELSE "-"
        folder_name == "Call-" \o zfill(int_str(str_int(num)), 3) \o "_" \o py_str(date)
        logs_link == "[logs](https://github.com/" \o REPO_OWNER \o "/" \o REPO_NAME
                     \o "/tree/main/" \o meeting_type \o "/" \o folder_name \o ")"
    IN  "| " \o formatted_date_of(date) \o " | " \o meeting_type \o " | " \o num
        \o " | " \o issue_link \o " | " \o summary_of(forkcast_calls, meeting_type, num)
        \o " | " \o discussion \o " | " \o recording \o " | " \o logs_link \o " |"

\* lines 227-244: the cache entries to add, in the order of the cache
RECURSIVE new_meetings_of(_, _)
new_meetings_of(processed, existing_meetings) ==
    IF processed = <<>> THEN <<>>
    ELSE LET key  == Head(processed).key
             data == Head(processed).data
         IN  (IF /\ data.meeting_type \in ACD_TYPES
                 /\ data.meeting_num.some
                 /\ data.meeting_num.val # ""
                 /\ <<data.meeting_type, data.meeting_num.val>> \notin existing_meetings
              THEN <<[type |-> data.meeting_type, num |-> data.meeting_num.val,
                      date |-> data.date, issue_num |-> Head(split_on(key, "u"))]>>
              ELSE <<>>)
             \o new_meetings_of(Tail(processed), existing_meetings)

EPOCH_ORDINAL == 719163

\* -date_obj.timestamp(), in days, or the 0 of the except clause
key_of_parses(parses) ==
    IF parses = {} THEN 0
    ELSE 0 - (date_ordinal(CHOOSE dt \in parses : TRUE) - EPOCH_ORDINAL)

\* lines 260-265
sort_key(x) ==
    IF x.date.some THEN key_of_parses(strptime(x.date.val, "%Y-%m-%d")) ELSE 0

\* list.sort(key=sort_key), line 267: stable
RECURSIVE insert_by_key(_, _)
insert_by_key(sorted, x) ==
    IF sorted = <<>> THEN <<x>>
    ELSE IF sort_key(Head(sorted)) <= sort_key(x)
         THEN <<Head(sorted)>> \o insert_by_key(Tail(sorted), x)
         ELSE <<x>> \o sorted

RECURSIVE sort_by_key(_)
sort_by_key(meetings) ==
    IF meetings = <<>> THEN <<>>
    ELSE insert_by_key(sort_by_key(SubSeq(meetings, 1, Len(meetings) - 1)),
                       meetings[Len(meetings)])

\* '\n'.join(new_rows) + '\n', line 292
RECURSIVE joined_rows(_)
joined_rows(new_rows) ==
    IF Len(new_rows) = 1 THEN new_rows[1] \o "\n"
    ELSE new_rows[1] \o "\n" \o joined_rows(Tail(new_rows))

\* a variant of insert_rows that writes the new rows in place of the old ones
replace_rows(readme_content, at, new_rows) ==
    slice(readme_content, 0, at) \o joined_rows(new_rows)
        \o slice(readme_content, rows_end(readme_content, at), Len(readme_content))

\* lines 289-294
insert_rows(readme_content, at, new_rows) ==
    slice(readme_content, 0, at) \o joined_rows(new_rows)
        \o slice(readme_content, at, Len(readme_content))

\* a README.md that does not exist
NoReadme == [exists |-> FALSE, content |-> ""]
Readme(content) == [exists |-> TRUE, content |-> content]

\* lines 269-276: new_rows
rows_of(new_meetings, forkcast_calls, links) ==
    [k \in 1..Len(new_meetings) |->
        generate_row(new_meetings[k].type, new_meetings[k].num, new_meetings[k].date,
                     new_meetings[k].issue_num, forkcast_calls, links)]

\* lines 246-301, new_meetings sorted and the header ending at offset at
write_new_rows(readme, new_meetings, at, forkcast_calls, links) ==
    IF new_meetings = <<>> \/ at < 0
    THEN [changed |-> FALSE, readme |-> readme]
    ELSE [changed |-> TRUE,
          readme |-> Readme(insert_rows(readme.content, at,
                                        rows_of(new_meetings, forkcast_calls, links)))]

\* lines 203-301: the value returned and the README.md left behind
update_readme_table(readme, processed, forkcast_calls, links) ==
    IF ~readme.exists THEN [changed |-> FALSE, readme |-> readme]
    ELSE write_new_rows(
            readme,
            sort_by_key(new_meetings_of(processed, parse_existing_meetings(readme.content))),
            header_end(readme.content), forkcast_calls, links)

-----------------------------------------------------------------------------
(* scripts/pmissues_monitor.py: the meetings ready to process.  A point in  *)
(* time is a number of hours, hour 0 being 00:00 of the day of ordinal 0.   *)

\* formats, lines 123-127
MEETING_FORMATS ==
    <<"%B %d, %Y", "%B %d %Y", "%b %d, %Y", "%b %d %Y", "%d %B %Y", "%d %b %Y",
      "%Y-%m-%d", "%m/%d/%Y", "%m-%d-%Y", "%m-%d-%y">>

MEETING_HOUR == 14

NoTime == [some |-> FALSE, hours |-> 0]

\* dt.replace(hour=14, minute=0), line 137
at_meeting_hour(parses) ==
    IF parses = {} THEN NoTime
    ELSE [some |-> TRUE,
          hours |-> 24 * date_ordinal(CHOOSE dt \in parses : TRUE) + MEETING_HOUR]

\* lines 118-140; date_str is None or a string
parse_meeting_datetime(date_str) ==
    IF ~date_str.some \/ date_str.val = "" THEN NoTime
    ELSE at_meeting_hour(FirstParse(clean_date_str(date_str.val), MEETING_FORMATS, 1))

\* line 231: max_pages = 10
MAX_ISSUE_PAGES == 10

\* a variant of is_ready that does not wait for the buffer to pass
is_ready_unbuffered(meeting_info, meeting_time, now, days_back, buffer_hours) ==
    /\ meeting_info.matched
    /\ meeting_info.date_str.some
    /\ meeting_info.date_str.val # ""
    /\ meeting_time.some
    /\ ~(meeting_time.hours < now - 24 * days_back)
    /\ ~(meeting_time.hours > now)

\* lines 281-304: the issue is kept
is_ready(meeting_info, meeting_time, now, days_back, buffer_hours) ==
    /\ meeting_info.matched
    /\ meeting_info.date_str.some
    /\ meeting_info.date_str.val # ""
    /\ meeting_time.some
    /\ ~(meeting_time.hours < now - 24 * days_back)
    /\ ~(meeting_time.hours > now - buffer_hours)

\* lines 279-306, for one issue
ready_info(meeting_info, now, days_back, buffer_hours) ==
    is_ready(meeting_info, parse_meeting_datetime(meeting_info.date_str),
             now, days_back, buffer_hours)
ready_issue(issue, now, days_back, buffer_hours) ==
    ready_info(parse_issue_for_meeting_info(issue), now, days_back, buffer_hours)

\* lines 273-311: ready_issues
RECURSIVE ready_issues_of(_, _, _, _)
ready_issues_of(all_issues, now, days_back, buffer_hours) ==
    IF all_issues = <<>> THEN <<>>
    ELSE (IF ready_issue(Head(all_issues), now, days_back, buffer_hours)
          THEN <<Head(all_issues)>> ELSE <<>>)
         \o ready_issues_of(Tail(all_issues), now, days_back, buffer_hours)

-----------------------------------------------------------------------------
(* scripts/download_transcripts.py *)

\* type_mappings, lines 45-72, as sorted at line 75: longest pattern first,
\* patterns of one length in the order of the dict
SORTED_PATTERNS ==
    <<
      <<"All Core Devs - Consensus (ACDC)", "ACDC">>,
      <<"All Core Devs - Execution (ACDE)", "ACDE">>,
      <<"All Core Devs - Testing (ACDT)", "ACDT">>,
      <<"Gas repricing Breakout Room", "Gas-Repricing">>,
      <<"Interop Testing - (ACDT)", "ACDT">>,
      <<"AllCoreDevs - Execution", "ACDE">>,
      <<"EIP Editing Office Hour", "EIP-Editing-Office-Hour">>,
      <<"EIP-Editing-Office-Hour", "EIP-Editing-Office-Hour">>,
      <<"EVM Resource Pricing", "EVM-Resource-Pricing">>,
      <<"Trustless Agents", "Trustless-Agents">>,
      <<"Interop Testing", "ACDT">>,
      <<"All Wallet Devs", "All-Wallet-Devs">>,
      <<"RPC Standards", "RPC-Standards">>,
      <<"RPC standards", "RPC-Standards">>,
      <<"Gas repricing", "Gas-Repricing">>,
      <<"Gas-Repricing", "Gas-Repricing">>,
      <<"ETH simulate", "ETH-simulate">>,
      <<"PQ Interop", "PQ-Interop">>,
      <<"L2 Interop", "L2-Interop">>,
      <<"Roll Call", "Roll-Call">>,
      <<"EIP-7928", "BAL">>,
      <<"Portal", "Portal">>,
      <<"FOCIL", "FOCIL">>,
      <<"Focil", "FOCIL">>,
      <<"ePBS", "ePBS">>
    >>

\* the folder name of the first pattern that hits, or "Unknown"
first_hit(hits) ==
    IF hits = {} THEN "Unknown"
    ELSE SORTED_PATTERNS[CHOOSE k \in hits : \A j \in hits : k <= j][2]

\* lines 76-79: pattern in topic
exact_type(topic) ==
    first_hit({k \in 1..Len(SORTED_PATTERNS) : str_in(SORTED_PATTERNS[k][1], topic)})

\* lines 82-87: pattern.lower() in topic_lower
partial_type(topic_lower) ==
    first_hit({k \in 1..Len(SORTED_PATTERNS) :
                  str_in(str_lower(SORTED_PATTERNS[k][1]), topic_lower)})

\* str.replace(c, d) for single characters
RECURSIVE str_replace(_, _, _)
str_replace(s, c, d) ==
    IF s = "" THEN ""
    ELSE (IF Head(s) = c THEN d ELSE Head(s)) \o str_replace(Tail(s), c, d)

\* re.sub(r'[/-]Call[/-]\d+.*$', '', name), line 94: name up to the leftmost
\* match (name holds no line break)
cut_call_suffix(name, hits) ==
    IF hits = {} THEN name
    ELSE slice(name, 0, CHOOSE k \in hits : \A j \in hits : k <= j)

call_suffix_hits(name) ==
    {k \in 0..(Len(name) - 1) :
        /\ ch(name, k + 1) \in {"/", "-"}
        /\ slice(name, k + 1, k + 5) = "Call"
        /\ ch(name, k + 6) \in {"/", "-"}
        /\ ch(name, k + 7) \in Digits}

\* lines 90-94
fallback_type(topic) ==
    IF RunEnd(topic, 0, "t") = 0 THEN "Unknown"
    ELSE cut_call_suffix(
            str_replace(str_strip(slice(topic, 0, RunEnd(topic, 0, "t"))), " ", "-"),
            call_suffix_hits(
                str_replace(str_strip(slice(topic, 0, RunEnd(topic, 0, "t"))), " ", "-")))

\* lines 41-94: meeting_type
meeting_type_of(topic) ==
    IF exact_type(topic) # "Unknown" THEN exact_type(topic)
    ELSE IF partial_type(str_lower(topic)) # "Unknown" THEN partial_type(str_lower(topic))
         ELSE fallback_type(topic)

\* re.search(r'Call (\d+)', topic, re.IGNORECASE), lines 38-39
digits_after_call(topic, hits) ==
    IF hits = {} THEN None
    ELSE Some(slice(topic, (CHOOSE k \in hits : \A j \in hits : k <= j) + 5,
                    RunEnd(topic, (CHOOSE k \in hits : \A j \in hits : k <= j) + 5, "d")))

call_number_of(topic) ==
    digits_after_call(topic,
        {k \in 0..(Len(topic) - 1) :
            /\ str_lower(slice(topic, k, k + 5)) = "call "
            /\ ch(topic, k + 6) \in Digits})

\* lines 33-39: meeting_num
topic_number_of(topic) ==
    IF meeting_number_of(topic).some THEN meeting_number_of(topic)
    ELSE call_number_of(topic)

\* lines 30-96
extract_meeting_info(topic) ==
    [meeting_type |-> meeting_type_of(topic), meeting_num |-> topic_number_of(topic)]

\* recording.get('start_time', '').split('T')[0], line 110 and main.py line 273
start_date_of(recording) == Head(split_on(recording.start_time, "T"))

\* a variant of folder_path_of that writes the number as it is
folder_path_unpadded(output_dir, meeting_type, meeting_num, start_date) ==
    output_dir \o "/" \o meeting_type \o "/" \o
        (IF meeting_num.some /\ meeting_num.val # ""
         THEN "Call-" \o meeting_num.val \o "_" \o start_date
         ELSE "Call_" \o start_date)

\* lines 113-118: str(folder_path)
folder_path_of(output_dir, meeting_type, meeting_num, start_date) ==
    output_dir \o "/" \o meeting_type \o "/" \o
        (IF meeting_num.some /\ meeting_num.val # ""
         THEN "Call-" \o zfill(int_str(str_int(meeting_num.val)), 3) \o "_" \o start_date
         ELSE "Call_" \o start_date)

\* lines 129-145: the name of the file a recording file is saved as
artifact_name(file_type) ==
    IF file_type = "TRANSCRIPT" THEN "transcript.vtt" ELSE "chat.txt"

\* lines 129 and 138: the recording files that are downloaded
is_artifact(file_type) == file_type \in {"TRANSCRIPT", "CHAT"}

\* download_file, lines 12-27, once per recording file: answers[k] is "ok"
\* for status 200, "status" for another status, "raise" when requests.get
\* raises.  The index of the first download that raises, or 0
first_raise(files, answers) ==
    IF \E k \in 1..Len(files) : is_artifact(files[k]) /\ answers[k] = "raise"
    THEN CHOOSE k \in 1..Len(files) :
            /\ is_artifact(files[k]) /\ answers[k] = "raise"
            /\ \A j \in 1..(k - 1) : ~(is_artifact(files[j]) /\ answers[j] = "raise")
    ELSE 0

\* the names of the files written before the loop of lines 126-145 ends
saved_before(files, answers, stop) ==
    {artifact_name(files[k]) : k \in
        {j \in 1..Len(files) :
            /\ is_artifact(files[j])
            /\ answers[j] = "ok"
            /\ (stop = 0 \/ j < stop)}}

\* lines 103-107: meeting_num
number_used(topic, override_meeting_num) ==
    IF override_meeting_num.some /\ override_meeting_num.val # ""
    THEN override_meeting_num
    ELSE extract_meeting_info(topic).meeting_num

\* lines 113-118: folder_path for a recording
artifacts_folder(rec, override_meeting_num) ==
    folder_path_of("downloads", extract_meeting_info(rec.topic).meeting_type,
                   number_used(rec.topic, override_meeting_num), start_date_of(rec))

NoMetadata ==
    [written |-> FALSE, meeting_id |-> "", topic |-> "", meeting_type |-> "",
     meeting_number |-> None, start_time |-> "", duration_minutes |-> NoDuration,
     downloaded_at |-> 0, files |-> {}]

\* lines 148-158
Metadata(rec, override_meeting_num, now, files) ==
    [written |-> TRUE, meeting_id |-> rec.matched_meeting_id, topic |-> rec.topic,
     meeting_type |-> extract_meeting_info(rec.topic).meeting_type,
     meeting_number |-> number_used(rec.topic, override_meeting_num),
     start_time |-> rec.start_time, duration_minutes |-> rec.duration,
     downloaded_at |-> now, files |-> files \ {"metadata.json"}]

\* the folder at a path of the disk, empty when mkdir creates it (line 119)
folder_at(disk, path) ==
    IF \E f \in disk : f.path = path
    THEN CHOOSE f \in disk : f.path = path
    ELSE [path |-> path, files |-> {}, metadata |-> NoMetadata]

\* lines 119-163: the folder once the call has returned or raised
folder_after(old, rec, override_meeting_num, now, saved, raised) ==
    [path |-> old.path,
     files |-> old.files \cup saved \cup (IF raised THEN {} ELSE {"metadata.json"}),
     metadata |-> IF raised THEN old.metadata
                  ELSE Metadata(rec, override_meeting_num, now, old.files \cup saved)]

\* the disk with one folder replaced
disk_with(disk, folder) == {f \in disk : f.path # folder.path} \cup {folder}

\* lines 98-165: [raised, folder_path, disk]
download_meeting_artifacts(rec, override_meeting_num, disk, answers, now) ==
    [raised |-> first_raise(rec.files, answers) # 0,
     folder_path |-> artifacts_folder(rec, override_meeting_num),
     disk |-> disk_with(disk,
                folder_after(folder_at(disk, artifacts_folder(rec, override_meeting_num)),
                             rec, override_meeting_num, now,
                             saved_before(rec.files, answers,
                                          first_raise(rec.files, answers)),
                             first_raise(rec.files, answers) # 0))]

-----------------------------------------------------------------------------
(* scripts/main.py *)

\* line 116: timedelta(hours=6)
RECENT_HOURS == 6

\* line 98: days_back=7
DAYS_BACK == 7

\* line 181: buffer_hours=2
BUFFER_HOURS == 2

\* line 266: recording.get('duration', 0) < 10
MIN_DURATION == 10

\* a variant of ran_recently that does not look for the summary section
ran_recently_any_log(logs, now) ==
    \E k \in 1..Len(logs) : logs[k].started > now - RECENT_HOURS

\* lines 117-141: a log of the last six hours has the summary section
ran_recently(logs, now) ==
    \E k \in 1..Len(logs) : logs[k].started > now - RECENT_HOURS /\ logs[k].summary

\* the values the cache file holds: strings, null, and dicts whose members
\* keep their order
JStr(s)       == [kind |-> "str", str |-> s, members |-> <<>>]
JNull         == [kind |-> "null", str |-> "", members |-> <<>>]
JObj(members) == [kind |-> "obj", str |-> "", members |-> members]
EmptyDict     == JObj(<<>>)

\* d[name] = value
obj_put(members, name, value) ==
    IF \E k \in 1..Len(members) : members[k].name = name
    THEN [k \in 1..Len(members) |->
            IF members[k].name = name THEN [name |-> name, value |-> value]
            ELSE members[k]]
    ELSE Append(members, [name |-> name, value |-> value])

\* json.dump writes a string with its quotes, backslashes and control
\* characters escaped
escape_char(c) ==
    CASE c = "\"" -> "\\\""
      [] c = "\\" -> "\\\\"
      [] c = "\n" -> "\\n"
      [] c = "\t" -> "\\t"
      [] OTHER -> c

\* a variant of escaped that writes the characters as they are
unescaped(s) == s

RECURSIVE escaped(_)
escaped(s) ==
    IF s = "" THEN "" ELSE escape_char(ch(s, 1)) \o escaped(slice(s, 1, Len(s)))

RECURSIVE indent_of(_)
indent_of(level) == IF level = 0 THEN "" ELSE "  " \o indent_of(level - 1)

\* line 65: json.dump(cache, f, indent=2), the text written for a value
\* nested level deep
RECURSIVE json_dumps(_, _)
RECURSIVE dumps_members(_, _, _)
json_dumps(v, level) ==
    IF v.kind = "str" THEN "\"" \o escaped(v.str) \o "\""
    ELSE IF v.kind = "null" THEN "null"
    ELSE IF v.members = <<>> THEN "{}"
    ELSE "{\n" \o dumps_members(v.members, 1, level + 1) \o "\n"
         \o indent_of(level) \o "}"
dumps_members(members, k, level) ==
    indent_of(level) \o "\"" \o escaped(members[k].name) \o "\": "
    \o json_dumps(members[k].value, level)
    \o (IF k = Len(members) THEN ""
        ELSE ",\n" \o dumps_members(members, k + 1, level))

\* what the decoder answers: a value and the position after it, or an error
DecodeError  == [ok |-> FALSE, value |-> JNull, next |-> 0]
Decoded(v, n) == [ok |-> TRUE, value |-> v, next |-> n]

RECURSIVE skip_ws(_, _)
skip_ws(t, i) == IF ch(t, i) \in Whitespace THEN skip_ws(t, i + 1) ELSE i

unescape_char(e) ==
    CASE e = "\"" -> "\""
      [] e = "\\" -> "\\"
      [] e = "/" -> "/"
      [] e = "n" -> "\n"
      [] e = "t" -> "\t"
      [] OTHER -> ""

\* the string whose opening quote is before position i
RECURSIVE scan_string(_, _, _)
scan_string(t, i, acc) ==
    IF ch(t, i) = "" \/ ch(t, i) \in {"\n", "\t"} THEN DecodeError
    ELSE IF ch(t, i) = "\"" THEN Decoded(JStr(acc), i + 1)
    ELSE IF ch(t, i) = "\\"
    THEN IF unescape_char(ch(t, i + 1)) = "" THEN DecodeError
         ELSE scan_string(t, i + 2, acc \o unescape_char(ch(t, i + 1)))
    ELSE scan_string(t, i + 1, acc \o ch(t, i))

\* line 59: json.load(f), the value that starts at position i
RECURSIVE parse_value(_, _)
RECURSIVE parse_member(_, _, _)
after_member(t, i, acc) ==
    IF ch(t, i) = "}" THEN Decoded(JObj(acc), i + 1)
    ELSE IF ch(t, i) = "," THEN parse_member(t, skip_ws(t, i + 1), acc)
    ELSE DecodeError
after_value(t, name, val, acc) ==
    IF ~val.ok THEN DecodeError
    ELSE after_member(t, skip_ws(t, val.next), obj_put(acc, name, val.value))
after_name(t, name, acc) ==
    IF ~name.ok THEN DecodeError
    ELSE IF ch(t, skip_ws(t, name.next)) # ":" THEN DecodeError
    ELSE after_value(t, name.value.str,
                     parse_value(t, skip_ws(t, skip_ws(t, name.next) + 1)), acc)
parse_member(t, i, acc) ==
    IF ch(t, i) # "\"" THEN DecodeError
    ELSE after_name(t, scan_string(t, i + 1, ""), acc)
parse_value(t, i) ==
    IF ch(t, i) = "\"" THEN scan_string(t, i + 1, "")
    ELSE IF slice(t, i - 1, i + 3) = "null" THEN Decoded(JNull, i + 4)
    ELSE IF ch(t, i) = "{"
    THEN IF ch(t, skip_ws(t, i + 1)) = "}"
         THEN Decoded(EmptyDict, skip_ws(t, i + 1) + 1)
         ELSE parse_member(t, skip_ws(t, i + 1), <<>>)
    ELSE DecodeError

\* text after the value is an error
whole_text(t, r) == IF r.ok /\ skip_ws(t, r.next) = Len(t) + 1 THEN r ELSE DecodeError

json_loads(t) == whole_text(t, parse_value(t, skip_ws(t, 1)))

\* line 70: None[:10] raises TypeError
key_raises(meeting_info) == ~meeting_info.closed_at.some

\* a variant of get_meeting_key that leaves the issue number out
get_meeting_key_date_only(meeting_info) ==
    "_" \o slice(meeting_info.closed_at.val, 0, 10)

\* lines 67-70
get_meeting_key(meeting_info) ==
    int_str(meeting_info.issue_number) \o "_" \o slice(meeting_info.closed_at.val, 0, 10)

\* meeting_key in processed_cache
cache_has(cache, key) == \E k \in 1..Len(cache) : cache[k].key = key

\* processed_cache[meeting_key] = data
cache_put(cache, key, data) ==
    IF cache_has(cache, key)
    THEN [k \in 1..Len(cache) |->
            IF cache[k].key = key THEN [key |-> key, data |-> data] ELSE cache[k]]
    ELSE Append(cache, [key |-> key, data |-> data])

\* lines 279-284: the entry of a meeting found on GitHub; status None stands
\* for the missing key
existing_entry(now, meeting_type, meeting_num, date) ==
    [processed_at |-> now, meeting_type |-> meeting_type, meeting_num |-> meeting_num,
     date |-> Some(date), status |-> None, uploaded_at |-> NoTime]

\* a variant of downloaded_entry that leaves the status out
downloaded_entry_unmarked(now, meeting_type, meeting_num, date) ==
    [processed_at |-> now, meeting_type |-> meeting_type, meeting_num |-> meeting_num,
     date |-> Some(date), status |-> None, uploaded_at |-> NoTime]

\* lines 302-308
downloaded_entry(now, meeting_type, meeting_num, date) ==
    [processed_at |-> now, meeting_type |-> meeting_type, meeting_num |-> meeting_num,
     date |-> Some(date), status |-> Some("downloaded"), uploaded_at |-> NoTime]

\* lines 82-87: the path check_if_exists_on_github asks for
exists_path(meeting_type, meeting_num, date) ==
    meeting_type \o "/" \o
        (IF meeting_num.some /\ meeting_num.val # ""
         THEN "Call-" \o meeting_num.val \o "_" \o date
         ELSE "Call_" \o date)
        \o "/metadata.json"

\* lines 335-339
uploaded_acd(cache) ==
    \E k \in 1..Len(cache) :
        /\ cache[k].data.status = Some("downloaded")
        /\ cache[k].data.meeting_type \in {"ACDE", "ACDT", "ACDC"}

\* lines 342-345
mark_uploaded(cache, now) ==
    [k \in 1..Len(cache) |->
        IF cache[k].data.status = Some("downloaded")
        THEN [key |-> cache[k].key,
              data |-> [cache[k].data EXCEPT !.status = Some("uploaded"),
                                             !.uploaded_at = [some |-> TRUE, hours |-> now]]]
        ELSE cache[k]]

\* the repository paths of the files of the folders, as line 111-112 of
\* github_uploader.py names them
folder_repo_paths(folders, disk) ==
    UNION {{github_path(f.path \o "/" \o name) : name \in f.files} :
           f \in {g \in disk : \E k \in 1..Len(folders) : folders[k] = g.path}}

\* lines 183-189: matched_meetings
RECURSIVE meeting_infos_of(_)
appended_if_matched(meeting_info) ==
    IF meeting_info.matched THEN <<meeting_info>> ELSE <<>>
meeting_infos_of(issues) ==
    IF issues = <<>> THEN <<>>
    ELSE appended_if_matched(parse_issue_for_meeting_info(Head(issues)))
         \o meeting_infos_of(Tail(issues))

-----------------------------------------------------------------------------
(* Idle values: a specification about one component holds the others here. *)

DateIdle ==
    /\ text = ""
    /\ ntokens = 0
    /\ extracted = [done |-> FALSE, result |-> None]

MatchIdle ==
    /\ title = ""
    /\ srcName = ""
    /\ edits = 0
    /\ caseSpaceOnly = TRUE
    /\ parsed = [done |-> FALSE, info |-> NoMeetingInfo]

ResolveIdle ==
    /\ resolve_pc = "done"
    /\ meeting_ids = <<>>
    /\ meeting_date = ""
    /\ search_window = [from |-> 0, to |-> 0]
    /\ host_i = 1
    /\ page_no = 1
    /\ all_meetings = <<>>
    /\ listed = <<>>
    /\ api_errors = 0
    /\ resolved = [kind |-> "none", recording |-> NoRecording]

\* the repository before the call: the branch at commit 1, whose tree is 2
InitialServer ==
    [branch_ref |-> 1,
     trees |-> {[sha |-> 2, base_tree |-> 0, paths |-> <<>>]},
     commits |-> {[sha |-> 1, tree |-> 2, parent |-> 0]},
     next_sha |-> 3]

NoLocals ==
    [last_commit_sha |-> 0, base_tree_sha |-> 0, new_tree_sha |-> 0,
     new_commit_sha |-> 0, uploaded_files |-> <<>>]

UploadIdle ==
    /\ upload_pc = "done"
    /\ token_set = FALSE
    /\ folders_to_upload = <<>>
    /\ unreadable = {}
    /\ server = InitialServer
    /\ up = NoLocals
    /\ requests_made = <<>>
    /\ upload_result = <<>>

ReadmeIdle ==
    /\ readme_md = NoReadme
    /\ processed_meetings = <<>>
    /\ readme_edits = 0
    /\ update_log = <<>>

NoCounts ==
    [processed_count |-> 0, skipped_cached |-> 0, skipped_no_recording |-> 0,
     skipped_short |-> 0]

NoArgs == [dry_run |-> FALSE, force_reprocess |-> FALSE, check_daily_run |-> TRUE]

\* the locals of process_recent_meetings before line 153
NoRunLocals ==
    /\ processed_cache = <<>>
    /\ ready_meetings = <<>>
    /\ meeting_i = 0
    /\ zoom_recording = NoRecording
    /\ processed_folders = <<>>
    /\ counts = NoCounts
    /\ failed_matches = <<>>

RunIdle ==
    /\ run_pc = "idle"
    /\ runs = 0
    /\ clock = 0
    /\ args = NoArgs
    /\ environ = [zoom_token |-> FALSE, upload_repo |-> FALSE]
    /\ run_logs = <<>>
    /\ cache_file = <<>>
    /\ readme_file = NoReadme
    /\ downloads = {}
    /\ repo_paths = {}
    /\ NoRunLocals
    /\ trail = <<>>
    /\ run_outcome = ""

PollIdle ==
    /\ poll_pc = "done"
    /\ poll_now = 0
    /\ tracker_issues = {}
    /\ poll_page = 1
    /\ issues_fetched = <<>>
    /\ ready_issues = <<>>

StoreIdle ==
    /\ store_pc = "loaded"
    /\ cache_arg = EmptyDict
    /\ json_file = [exists |-> FALSE, content |-> ""]
    /\ cache_loaded = EmptyDict

\* the invocations that may be under way together
Invokers == {1, 2}

OverlapIdle ==
    /\ inv_pc = [p \in Invokers |-> "done"]
    /\ wall_clock = 0
    /\ log_dir = <<>>
    /\ shared_cache = <<>>
    /\ inv_cache = [p \in Invokers |-> <<>>]

RepeatIdle ==
    /\ rep_pc = "idle"
    /\ rep_runs = 0
    /\ rep_forced = FALSE
    /\ rep_file = <<>>
    /\ rep_cache = <<>>
    /\ rep_meetings = <<>>
    /\ rep_i = 0
    /\ rep_folders = <<>>
    /\ rep_log = <<>>

\* a step of one component leaves the other components alone
OnlyDate    == UNCHANGED <<matchVars, resolveVars, uploadVars, readmeVars, runVars, pollVars, storeVars, overlapVars, repeatVars>>
OnlyMatch   == UNCHANGED <<dateVars, resolveVars, uploadVars, readmeVars, runVars, pollVars, storeVars, overlapVars, repeatVars>>
OnlyResolve == UNCHANGED <<dateVars, matchVars, uploadVars, readmeVars, runVars, pollVars, storeVars, overlapVars, repeatVars>>
OnlyUpload  == UNCHANGED <<dateVars, matchVars, resolveVars, readmeVars, runVars, pollVars, storeVars, overlapVars, repeatVars>>
OnlyReadme  == UNCHANGED <<dateVars, matchVars, resolveVars, uploadVars, runVars, pollVars, storeVars, overlapVars, repeatVars>>
OnlyRun     == UNCHANGED <<dateVars, matchVars, resolveVars, uploadVars, readmeVars, pollVars, storeVars, overlapVars, repeatVars>>
OnlyPoll    == UNCHANGED <<dateVars, matchVars, resolveVars, uploadVars, readmeVars, runVars, storeVars, overlapVars, repeatVars>>
OnlyStore   == UNCHANGED <<dateVars, matchVars, resolveVars, uploadVars, readmeVars, runVars, pollVars, overlapVars, repeatVars>>
OnlyOverlap == UNCHANGED <<dateVars, matchVars, resolveVars, uploadVars, readmeVars, runVars, pollVars, storeVars, repeatVars>>
OnlyRepeat  == UNCHANGED <<dateVars, matchVars, resolveVars, uploadVars, readmeVars, runVars, pollVars, storeVars, overlapVars>>

-----------------------------------------------------------------------------
(* SpecDate: extract_date_from_text applied to texts built from tokens.     *)

MaxDateTokens == 3

DateTokens ==
    {"Sep ", "Call ", "26  ", "26th, ", "26TH ", "31 ", "2025",
     "2025-09-29 ", "10/6/25", "10-6-25 ", "10/6/2025 "}

AppendToken ==
    /\ ~extracted.done
    /\ ntokens < MaxDateTokens
    /\ \E tok \in DateTokens : text' = text \o tok
    /\ ntokens' = ntokens + 1
    /\ UNCHANGED extracted
    /\ OnlyDate

ExtractDate ==
    /\ ~extracted.done
    /\ extracted' = [done |-> TRUE, result |-> extract_date_from_text(text)]
    /\ UNCHANGED <<text, ntokens>>
    /\ OnlyDate

InitDate == DateIdle /\ MatchIdle /\ ResolveIdle /\ UploadIdle /\ ReadmeIdle /\ RunIdle /\ PollIdle /\ StoreIdle /\ OverlapIdle /\ RepeatIdle
NextDate == AppendToken \/ ExtractDate

-----------------------------------------------------------------------------
(* SpecMatch: parse_issue_for_meeting_info applied to titles derived from   *)
(* the whitelist names by edits.                                            *)

MaxTitleEdits == 1

\* text an issue title carries around the meeting name
TitleContexts ==
    {<<"", " #56">>, <<"FOCIL & ", "">>, <<"Call: ", " | Sep 26, 2025 #57 #58">>}

IsLetter(c) == c \in Letters

Editing == ~parsed.done /\ edits < MaxTitleEdits

ToggleCase ==
    /\ Editing
    /\ \E i \in 1..Len(title) :
        /\ IsLetter(ch(title, i))
        /\ title' = slice(title, 0, i - 1)
                    \o (IF ch(title, i) \in UpperSet
                        THEN char_lower(ch(title, i)) ELSE char_upper(ch(title, i)))
                    \o slice(title, i, Len(title))
    /\ edits' = edits + 1
    /\ UNCHANGED <<srcName, caseSpaceOnly, parsed>>
    /\ OnlyMatch

UpperCaseTitle ==
    /\ Editing
    /\ title' = str_upper(title)
    /\ edits' = edits + 1
    /\ UNCHANGED <<srcName, caseSpaceOnly, parsed>>
    /\ OnlyMatch

LowerCaseTitle ==
    /\ Editing
    /\ title' = str_lower(title)
    /\ edits' = edits + 1
    /\ UNCHANGED <<srcName, caseSpaceOnly, parsed>>
    /\ OnlyMatch

InsertSpace ==
    /\ Editing
    /\ \E i \in 0..Len(title) :
        title' = slice(title, 0, i) \o " " \o slice(title, i, Len(title))
    /\ edits' = edits + 1
    /\ UNCHANGED <<srcName, caseSpaceOnly, parsed>>
    /\ OnlyMatch

RemoveSpace ==
    /\ Editing
    /\ \E i \in 1..Len(title) :
        /\ ch(title, i) = " "
        /\ title' = slice(title, 0, i - 1) \o slice(title, i, Len(title))
    /\ edits' = edits + 1
    /\ UNCHANGED <<srcName, caseSpaceOnly, parsed>>
    /\ OnlyMatch

RemoveAllSpaces ==
    /\ Editing
    /\ title' = str_remove(title, " ")
    /\ edits' = edits + 1
    /\ UNCHANGED <<srcName, caseSpaceOnly, parsed>>
    /\ OnlyMatch

AddContext ==
    /\ Editing
    /\ \E c \in TitleContexts : title' = c[1] \o title \o c[2]
    /\ edits' = edits + 1
    /\ UNCHANGED <<srcName, caseSpaceOnly, parsed>>
    /\ OnlyMatch

\* an edit that damages the name: a character other than a space is lost
DropChar ==
    /\ Editing
    /\ \E i \in 1..Len(title) :
        /\ ch(title, i) # " "
        /\ title' = slice(title, 0, i - 1) \o slice(title, i, Len(title))
    /\ edits' = edits + 1
    /\ caseSpaceOnly' = FALSE
    /\ UNCHANGED <<srcName, parsed>>
    /\ OnlyMatch

IssueOfTitle ==
    [title |-> title, body |-> None, number |-> 1, closed_at |-> None]

ParseIssue ==
    /\ ~parsed.done
    /\ parsed' = [done |-> TRUE, info |-> parse_issue_for_meeting_info(IssueOfTitle)]
    /\ UNCHANGED <<title, srcName, edits, caseSpaceOnly>>
    /\ OnlyMatch

InitMatch ==
    /\ \E i \in WhitelistIndexes :
        /\ srcName = WHITELISTED_MEETINGS[i].name
        /\ title = WHITELISTED_MEETINGS[i].name
    /\ edits = 0
    /\ caseSpaceOnly = TRUE
    /\ parsed = [done |-> FALSE, info |-> NoMeetingInfo]
    /\ DateIdle
    /\ ResolveIdle
    /\ UploadIdle
    /\ ReadmeIdle
    /\ RunIdle
    /\ PollIdle
    /\ StoreIdle
    /\ OverlapIdle
    /\ RepeatIdle

NextMatch ==
    \/ ToggleCase
    \/ UpperCaseTitle
    \/ LowerCaseTitle
    \/ InsertSpace
    \/ RemoveSpace
    \/ RemoveAllSpaces
    \/ AddContext
    \/ DropChar
    \/ ParseIssue

-----------------------------------------------------------------------------
(* SpecResolve: get_recordings_for_meeting_ids, one listing request of      *)
(* get_all_recordings_in_range per step, the service choosing each answer.  *)

\* recordings the listings carry in one call, in total
MaxRecordings == 2
\* pages of one user's listing
MaxPages == 2

\* the candidate IDs of a title: those of "All Core Devs - Testing (ACDT)",
\* and those of "FOCIL", which no recording of RecordingPool carries
IdsOfTitle(issue_title) ==
    LET m == matched_meetings(issue_title)
    IN  [k \in 1..Len(m) |-> WHITELISTED_MEETINGS[m[k]].meeting_id]

ResolveIdSets ==
    {IdsOfTitle("All Core Devs - Testing (ACDT) #56"), IdsOfTitle("FOCIL Breakout #21")}

ResolveDates == {"Sep 26, 2025", "10/6/2025", "Call 26 2025", "Sep 31 2025"}

Recording(id, topic, duration, start_time, files) ==
    [id |-> id, topic |-> topic, duration |-> duration, start_time |-> start_time,
     host_email |-> "", matched_meeting_id |-> "", files |-> files]

RecordingPool ==
    {Recording("84251237513", "All Core Devs - Testing (ACDT) #56", Minutes(45),
               "2025-09-26T14:00:05Z", <<"TRANSCRIPT", "CHAT">>),
     Recording("88479308162", "Interop Testing #56", Minutes(45),
               "2025-09-25T13:58:41Z", <<"TRANSCRIPT">>),
     Recording("84251237513", "All Core Devs - Testing (ACDT) #56", NoDuration,
               "2025-09-26T13:51:12Z", <<>>),
     Recording("85969202880", "All Core Devs - Consensus (ACDC) #166", Minutes(90),
               "2025-09-27T14:00:10Z", <<"TRANSCRIPT", "CHAT">>),
     Recording("84251237513", "All Core Devs - Testing (ACDT) #57", Minutes(5),
               "2025-10-06T14:00:03Z", <<"CHAT">>),
     Recording("88269836469", "All Core Devs - Execution (ACDE) #221", Minutes(95),
               "2025-09-25T14:00:07Z", <<"TRANSCRIPT">>),
     Recording("87943719720", "RPC Standards #20", Minutes(50),
               "2025-09-26T15:00:04Z", <<"TRANSCRIPT">>)}

\* the day of a recording's start_time
start_day(meeting) ==
    date_ordinal([Y |-> str_int(slice(meeting.start_time, 0, 4)),
                  m |-> str_int(slice(meeting.start_time, 5, 7)),
                  d |-> str_int(slice(meeting.start_time, 8, 10))])

\* the "from" and "to" parameters of lines 70-74: the service lists the
\* recordings that started inside the window
InWindow(window) ==
    {m \in RecordingPool : window.from <= start_day(m) /\ start_day(m) <= window.to}

PagesOf(pool, room) ==
    {<<>>} \cup (IF room >= 1 THEN {<<m>> : m \in pool} ELSE {})
           \cup (IF room >= 2 THEN {<<m, n>> : m \in pool, n \in pool} ELSE {})

\* lines 91-92: meeting["host_email"] = user_email
with_host(meetings, user_email) ==
    [k \in 1..Len(meetings) |-> [meetings[k] EXCEPT !.host_email = user_email]]

\* lines 119-138
ResolveStart ==
    /\ resolve_pc = "start"
    /\ LET target == parse_target_date(meeting_date)
       IN  IF target = {}
           THEN /\ resolved' = [kind |-> "none", recording |-> NoRecording]
                /\ resolve_pc' = "done"
                /\ UNCHANGED search_window
           ELSE /\ search_window' = window_of(CHOOSE dt \in target : TRUE)
                /\ resolve_pc' = "listing"
                /\ UNCHANGED resolved
    /\ UNCHANGED <<meeting_ids, meeting_date, host_i, page_no, all_meetings, listed, api_errors>>
    /\ OnlyResolve

\* lines 81-102: a 200 response, with or without a next_page_token
ListingOk ==
    /\ resolve_pc = "listing"
    /\ host_i <= Len(WHITELISTED_HOSTS)
    /\ \E meetings \in PagesOf(InWindow(search_window), MaxRecordings - Len(all_meetings)),
          next_page_token \in BOOLEAN :
        /\ next_page_token => page_no < MaxPages
        /\ all_meetings' = all_meetings \o with_host(meetings, WHITELISTED_HOSTS[host_i])
        /\ listed' = listed \o with_host(meetings, WHITELISTED_HOSTS[host_i])
        /\ IF next_page_token
           THEN page_no' = page_no + 1 /\ UNCHANGED host_i
           ELSE page_no' = 1 /\ host_i' = host_i + 1
    /\ UNCHANGED <<resolve_pc, meeting_ids, meeting_date, search_window, api_errors, resolved>>
    /\ OnlyResolve

\* lines 103-107: a 404 response ends this user's listing
ListingNotFound ==
    /\ resolve_pc = "listing"
    /\ host_i <= Len(WHITELISTED_HOSTS)
    /\ host_i' = host_i + 1
    /\ page_no' = 1
    /\ api_errors' = api_errors + 1
    /\ UNCHANGED <<resolve_pc, meeting_ids, meeting_date, search_window, all_meetings, listed, resolved>>
    /\ OnlyResolve

\* lines 108-112: any other status ends this user's listing
ListingError ==
    /\ resolve_pc = "listing"
    /\ host_i <= Len(WHITELISTED_HOSTS)
    /\ host_i' = host_i + 1
    /\ page_no' = 1
    /\ api_errors' = api_errors + 1
    /\ UNCHANGED <<resolve_pc, meeting_ids, meeting_date, search_window, all_meetings, listed, resolved>>
    /\ OnlyResolve

\* line 81: requests.get raises; nothing in either function catches it
ListingRaises ==
    /\ resolve_pc = "listing"
    /\ host_i <= Len(WHITELISTED_HOSTS)
    /\ resolved' = [kind |-> "raised", recording |-> NoRecording]
    /\ resolve_pc' = "done"
    /\ UNCHANGED <<meeting_ids, meeting_date, search_window, host_i, page_no, all_meetings, listed, api_errors>>
    /\ OnlyResolve

\* lines 150-193, once every user has been listed
SelectRecording ==
    /\ resolve_pc = "listing"
    /\ host_i > Len(WHITELISTED_HOSTS)
    /\ resolved' = select_recording(all_meetings, meeting_ids)
    /\ resolve_pc' = "done"
    /\ UNCHANGED <<meeting_ids, meeting_date, search_window, host_i, page_no, all_meetings, listed, api_errors>>
    /\ OnlyResolve

InitResolve ==
    /\ resolve_pc = "start"
    /\ meeting_ids \in ResolveIdSets
    /\ meeting_date \in ResolveDates
    /\ search_window = [from |-> 0, to |-> 0]
    /\ host_i = 1
    /\ page_no = 1
    /\ all_meetings = <<>>
    /\ listed = <<>>
    /\ api_errors = 0
    /\ resolved = [kind |-> "none", recording |-> NoRecording]
    /\ DateIdle
    /\ MatchIdle
    /\ UploadIdle
    /\ ReadmeIdle
    /\ RunIdle
    /\ PollIdle
    /\ StoreIdle
    /\ OverlapIdle
    /\ RepeatIdle

NextResolve ==
    \/ ResolveStart
    \/ ListingOk
    \/ ListingNotFound
    \/ ListingError
    \/ ListingRaises
    \/ SelectRecording

-----------------------------------------------------------------------------
(* SpecUpload: batch_upload_to_github, one request per step, the hosting    *)
(* service choosing each answer.                                            *)

MaxFolders == 2

UploadFolders ==
    {"downloads/ACDT/Call-056_2025-09-26", "downloads/ACDE/Call-221_2025-09-25",
     "downloads/ACDC/Call-166_2025-09-27"}

\* the lists of at most n different folders
RECURSIVE FolderListsUpTo(_)
FolderListsUpTo(n) ==
    IF n = 0 THEN {<<>>}
    ELSE LET shorter == FolderListsUpTo(n - 1)
         IN  shorter \cup
             {Append(l, f) : <<l, f>> \in
                 {q \in shorter \X UploadFolders :
                     \A k \in 1..Len(q[1]) : q[1][k] # q[2]}}

FolderLists == FolderListsUpTo(MaxFolders)

UnreadableSets ==
    {{}, {"downloads/ACDT/Call-056_2025-09-26/chat.txt"},
     {"downloads/ACDE/Call-221_2025-09-25/recording.mp4"}}

Requested(request, response) ==
    requests_made' = Append(requests_made, [request |-> request, response |-> response])

\* return [], at any of the lines 34, 47, 57, 65, 75, 86, 96, 139, 154, 165,
\* 184, 193, 209, 222
ReturnEmpty ==
    /\ upload_result' = <<>>
    /\ upload_pc' = "done"

tree_of_commit(commits, sha) ==
    IF \E c \in commits : c.sha = sha
    THEN (CHOOSE c \in commits : c.sha = sha).tree
    ELSE 0

\* lines 31-34
CheckToken ==
    /\ upload_pc = "token"
    /\ IF token_set THEN upload_pc' = "repo" /\ UNCHANGED upload_result ELSE ReturnEmpty
    /\ UNCHANGED <<token_set, folders_to_upload, unreadable, server, up, requests_made>>
    /\ OnlyUpload

\* lines 41-57
RepoCheck ==
    /\ upload_pc = "repo"
    /\ \E response \in GetResponses :
        /\ Requested("repo", response)
        /\ IF read_ok(response)
           THEN upload_pc' = "ref" /\ UNCHANGED upload_result
           ELSE ReturnEmpty
    /\ UNCHANGED <<token_set, folders_to_upload, unreadable, server, up>>
    /\ OnlyUpload

\* lines 59-78
GetRef ==
    /\ upload_pc = "ref"
    /\ \E response \in GetResponses :
        /\ Requested("ref", response)
        /\ IF read_ok(response)
           THEN /\ up' = [up EXCEPT !.last_commit_sha =
                              IF response.applied THEN server.branch_ref ELSE 0]
                /\ upload_pc' = "commit"
                /\ UNCHANGED upload_result
           ELSE ReturnEmpty /\ UNCHANGED up
    /\ UNCHANGED <<token_set, folders_to_upload, unreadable, server>>
    /\ OnlyUpload

\* lines 80-99
GetCommit ==
    /\ upload_pc = "commit"
    /\ \E response \in GetResponses :
        /\ Requested("commit", response)
        /\ IF read_ok(response)
           THEN /\ up' = [up EXCEPT !.base_tree_sha =
                              IF response.applied
                              THEN tree_of_commit(server.commits, up.last_commit_sha)
                              ELSE 0]
                /\ upload_pc' = "build"
                /\ UNCHANGED upload_result
           ELSE ReturnEmpty /\ UNCHANGED up
    /\ UNCHANGED <<token_set, folders_to_upload, unreadable, server>>
    /\ OnlyUpload

\* lines 101-141
BuildTree ==
    /\ upload_pc = "build"
    /\ LET tree_items == build_tree_items(folders_to_upload, unreadable)
       IN  /\ up' = [up EXCEPT !.uploaded_files = paths_of(tree_items)]
           /\ IF tree_items = <<>>
              THEN ReturnEmpty
              ELSE upload_pc' = "tree" /\ UNCHANGED upload_result
    /\ UNCHANGED <<token_set, folders_to_upload, unreadable, server, requests_made>>
    /\ OnlyUpload

\* lines 143-168
CreateTree ==
    /\ upload_pc = "tree"
    /\ \E response \in PostResponses :
        /\ Requested("tree", response)
        /\ server' = IF response.applied
                     THEN [server EXCEPT
                             !.trees = @ \cup {[sha |-> server.next_sha,
                                                base_tree |-> up.base_tree_sha,
                                                paths |-> up.uploaded_files]},
                             !.next_sha = @ + 1]
                     ELSE server
        /\ IF created_ok(response)
           THEN /\ up' = [up EXCEPT !.new_tree_sha =
                              IF response.applied THEN server.next_sha ELSE 0]
                /\ upload_pc' = "new_commit"
                /\ UNCHANGED upload_result
           ELSE ReturnEmpty /\ UNCHANGED up
    /\ UNCHANGED <<token_set, folders_to_upload, unreadable>>
    /\ OnlyUpload

\* lines 170-196
CreateCommit ==
    /\ upload_pc = "new_commit"
    /\ \E response \in PostResponses :
        /\ Requested("new_commit", response)
        /\ server' = IF response.applied
                     THEN [server EXCEPT
                             !.commits = @ \cup {[sha |-> server.next_sha,
                                                  tree |-> up.new_tree_sha,
                                                  parent |-> up.last_commit_sha]},
                             !.next_sha = @ + 1]
                     ELSE server
        /\ IF created_ok(response)
           THEN /\ up' = [up EXCEPT !.new_commit_sha =
                              IF response.applied THEN server.next_sha ELSE 0]
                /\ upload_pc' = "update"
                /\ UNCHANGED upload_result
           ELSE ReturnEmpty /\ UNCHANGED up
    /\ UNCHANGED <<token_set, folders_to_upload, unreadable>>
    /\ OnlyUpload

\* lines 198-222
UpdateRef ==
    /\ upload_pc = "update"
    /\ \E response \in PatchResponses :
        /\ Requested("update", response)
        /\ server' = IF response.applied
                     THEN [server EXCEPT !.branch_ref = up.new_commit_sha]
                     ELSE server
        /\ upload_pc' = "done"
        /\ upload_result' = IF updated_ok(response) THEN up.uploaded_files ELSE <<>>
    /\ UNCHANGED <<token_set, folders_to_upload, unreadable, up>>
    /\ OnlyUpload

InitUpload ==
    /\ upload_pc = "token"
    /\ token_set \in BOOLEAN
    /\ folders_to_upload \in FolderLists
    /\ unreadable \in UnreadableSets
    /\ server = InitialServer
    /\ up = NoLocals
    /\ requests_made = <<>>
    /\ upload_result = <<>>
    /\ DateIdle
    /\ MatchIdle
    /\ ResolveIdle
    /\ ReadmeIdle
    /\ RunIdle
    /\ PollIdle
    /\ StoreIdle
    /\ OverlapIdle
    /\ RepeatIdle

NextUpload ==
    \/ CheckToken
    \/ RepoCheck
    \/ GetRef
    \/ GetCommit
    \/ BuildTree
    \/ CreateTree
    \/ CreateCommit
    \/ UpdateRef

-----------------------------------------------------------------------------
(* SpecReadme: a README.md put together from pieces of text, a cache put    *)
(* together from entries, and update_readme_table called on them.           *)

MaxReadmeEdits == 1
MaxCacheEntries == 2
MaxUpdates == 2

TABLE_HEAD == "| Date | Type | No | Issue |\n"
TABLE_RULE == "| --- | --- | --- | --- |\n"

ReadmeHeads ==
    {"# Logs\n\n# ACD calls\n\n" \o TABLE_HEAD \o TABLE_RULE,
     "# ACD calls  \n\n\n" \o TABLE_HEAD \o TABLE_RULE \o "|26 Sep 2025|ACDT|56|-|\n",
     "# ACD calls\n" \o TABLE_HEAD \o TABLE_RULE,
     "# ACD calls\n\n" \o TABLE_HEAD \o "|---|---|---|---|\n"}

ReadmePieces ==
    {"| 25 Sep 2025 | ACDE | 221 | - |\n",
     "| 26 Sep 2025 | ACDT | #56 | - |\n",
     "| 26 Sep 2025 | ACDT | 56 | - |",
     "| 25 Sep 2025 | ACDE | 221 | - \n",
     "\nNotes\n"}

CacheEntry(key, meeting_type, meeting_num, date) ==
    [key |-> key,
     data |-> [meeting_type |-> meeting_type, meeting_num |-> meeting_num, date |-> date]]

CacheEntries ==
    {CacheEntry("1234_2025-09-26", "ACDT", Some("56"), Some("2025-09-26")),
     CacheEntry("1240_2025-09-25", "ACDE", Some("221"), Some("2025-09-25")),
     CacheEntry("1250_2025-10-06", "ACDT", Some("56"), Some("2025-10-06")),
     CacheEntry("1260_2025-09-30", "FOCIL", Some("21"), Some("2025-09-30")),
     CacheEntry("1270_2025-09-27", "ACDC", None, Some("2025-09-27"))}

NoLinks == [youtube_url |-> None, ethmag_url |-> None]

\* what fetch_links_from_issue and fetch_forkcast_calls may return
LinkChoices ==
    {NoLinks,
     [youtube_url |-> Some("https://youtu.be/dQw4w9WgXcQ"),
      ethmag_url |-> Some("https://ethereum-magicians.org/t/acdt-56/25500")]}

ForkcastChoices ==
    {{}, {[type |-> "ACDT", number |-> "056", url |-> "https://forkcast.org/calls/acdt/056"]}}

EditReadme ==
    /\ update_log = <<>>
    /\ readme_md.exists
    /\ readme_edits < MaxReadmeEdits
    /\ \E piece \in ReadmePieces : readme_md' = Readme(readme_md.content \o piece)
    /\ readme_edits' = readme_edits + 1
    /\ UNCHANGED <<processed_meetings, update_log>>
    /\ OnlyReadme

AddCacheEntry ==
    /\ update_log = <<>>
    /\ Len(processed_meetings) < MaxCacheEntries
    /\ \E entry \in CacheEntries :
        /\ \A k \in 1..Len(processed_meetings) : processed_meetings[k].key # entry.key
        /\ processed_meetings' = Append(processed_meetings, entry)
    /\ UNCHANGED <<readme_md, readme_edits, update_log>>
    /\ OnlyReadme

Updated(result) ==
    /\ readme_md' = result.readme
    /\ update_log' = Append(update_log,
                            [before |-> readme_md, after |-> result.readme,
                             changed |-> result.changed])

UpdateReadmeTable ==
    /\ Len(update_log) < MaxUpdates
    /\ \E forkcast_calls \in ForkcastChoices, links \in LinkChoices :
        Updated(update_readme_table(readme_md, processed_meetings, forkcast_calls, links))
    /\ UNCHANGED <<processed_meetings, readme_edits>>
    /\ OnlyReadme

InitReadme ==
    /\ readme_md \in {NoReadme} \cup {Readme(head) : head \in ReadmeHeads}
    /\ processed_meetings = <<>>
    /\ readme_edits = 0
    /\ update_log = <<>>
    /\ DateIdle
    /\ MatchIdle
    /\ ResolveIdle
    /\ UploadIdle
    /\ RunIdle
    /\ PollIdle
    /\ StoreIdle
    /\ OverlapIdle
    /\ RepeatIdle

NextReadme ==
    \/ EditReadme
    \/ AddCacheEntry
    \/ UpdateReadmeTable

-----------------------------------------------------------------------------
(* SpecRun: runs of process_recent_meetings, one step for every stretch of  *)
(* the function between two calls to a service; the tracker, the recording  *)
(* provider and the hosting service choose their answers.                   *)

MaxRuns == 2
MaxIssues == 2
MaxHandled == 2

\* the first run is started at 10:00 on 28 Sep 2025 at the earliest
START_CLOCK == 24 * date_ordinal([Y |-> 2025, m |-> 9, d |-> 28]) + 9

\* the hours between two calls: less than the six hours of line 116, or
\* exactly six
Waits == {1, 6}

\* the calls of lines 410, 414 and 441
ArgChoices ==
    {[dry_run |-> FALSE, force_reprocess |-> FALSE, check_daily_run |-> TRUE],
     [dry_run |-> TRUE, force_reprocess |-> FALSE, check_daily_run |-> TRUE],
     [dry_run |-> FALSE, force_reprocess |-> TRUE, check_daily_run |-> TRUE]}

EnvChoices ==
    {[zoom_token |-> TRUE, upload_repo |-> TRUE],
     [zoom_token |-> FALSE, upload_repo |-> TRUE],
     [zoom_token |-> TRUE, upload_repo |-> FALSE]}

\* the invocations: the three calls with the configuration in place, and the
\* default call with a part of it missing
Invocations ==
    {inv \in ArgChoices \X EnvChoices :
        \/ inv[2].zoom_token /\ inv[2].upload_repo
        \/ ~inv[1].dry_run /\ ~inv[1].force_reprocess}

Issue(number, issue_title, body, closed_at) ==
    [number |-> number, title |-> issue_title, body |-> body, closed_at |-> closed_at]

IssuePool ==
    {Issue(1234, "All Core Devs - Testing (ACDT) #56", Some("Sep 26, 2025"),
           Some("2025-09-26T15:30:00Z")),
     Issue(1240, "All Core Devs - Execution (ACDE) #221, Sep 25, 2025", None,
           Some("2025-09-26T09:05:00Z")),
     Issue(1234, "All Core Devs - Testing (ACDT) #56", Some("Sep 26, 2025"),
           Some("2025-09-27T09:10:00Z")),
     Issue(1250, "All Core Devs - Testing (ACDT) #56", Some("Sep 26, 2025"), None),
     Issue(1260, "All Core Devs - Testing (ACDT) #56", None,
           Some("2025-09-26T15:30:00Z")),
     Issue(1236, "RPC Standards #20", Some("Sep 26, 2025"),
           Some("2025-09-26T17:00:00Z"))}

\* the lists of at most n issues of different numbers; issue 1234 is in the
\* pool twice, as closed on 26 Sep and as reopened and closed again on 27 Sep
RECURSIVE IssueListsUpTo(_)
IssueListsUpTo(n) ==
    IF n = 0 THEN {<<>>}
    ELSE LET shorter == IssueListsUpTo(n - 1)
         IN  shorter \cup
             {Append(l, i) : <<l, i>> \in
                 {q \in shorter \X IssuePool :
                     \A k \in 1..Len(q[1]) : q[1][k].number # q[2].number}}

\* lines 229-239 of pmissues_monitor.py: the open issues are fetched before
\* the closed ones, each state newest first
listed_before(a, b) ==
    \/ ~a.closed_at.some /\ b.closed_at.some
    \/ a.closed_at.some = b.closed_at.some /\ a.number > b.number

IssueLists ==
    {l \in IssueListsUpTo(MaxIssues) :
        \A j \in 1..Len(l) : \A k \in (j + 1)..Len(l) : listed_before(l[j], l[k])}

\* the meetings the runs so far went through
RECURSIVE HandledUpTo(_)
HandledUpTo(k) ==
    IF k = 0 THEN 0 ELSE Len(trail[k].meetings) + HandledUpTo(k - 1)

Handled == HandledUpTo(Len(trail))

\* what a run did with a meeting
Note(meeting_info, key, rec, answers, folder, result) ==
    [issue_number |-> meeting_info.issue_number,
     issue_title |-> meeting_info.issue_title,
     closed_at |-> meeting_info.closed_at,
     date_str |-> meeting_info.date_str,
     key |-> key, recording |-> rec, answers |-> answers, folder |-> folder,
     result |-> result]

Noted(note) ==
    trail' = [trail EXCEPT ![Len(trail)].meetings = Append(@, note)]

\* an exception leaves process_recent_meetings
Raised ==
    /\ run_pc' = "idle"
    /\ run_outcome' = "raised"

Returns(outcome) ==
    /\ run_pc' = "idle"
    /\ run_outcome' = outcome

\* a variant of SetUp that goes on without the token and the repository
SetUp_unchecked(arguments, environment, now) ==
    /\ run_logs' = Append(run_logs,
                          [started |-> now, summary |-> FALSE, failed_processing |-> <<>>])
    /\ processed_cache' = IF arguments.force_reprocess THEN <<>> ELSE cache_file
    /\ trail' = Append(trail,
                       [force_reprocess |-> arguments.force_reprocess,
                        started |-> now,
                        cache_at_start |-> cache_file,
                        cache_read |-> processed_cache',
                        cache_written |-> FALSE,
                        meetings |-> <<>>])
    /\ run_pc' = "fetch"
    /\ run_outcome' = "running"

\* lines 145-177, once the check of lines 108-143 has let the run through
SetUp(arguments, environment, now) ==
    /\ run_logs' = Append(run_logs,
                          [started |-> now, summary |-> FALSE, failed_processing |-> <<>>])
    /\ processed_cache' = IF arguments.force_reprocess THEN <<>> ELSE cache_file
    /\ trail' = Append(trail,
                       [force_reprocess |-> arguments.force_reprocess,
                        started |-> now,
                        cache_at_start |-> cache_file,
                        cache_read |-> processed_cache',
                        cache_written |-> FALSE,
                        meetings |-> <<>>])
    /\ IF ~environment.zoom_token THEN Returns("no zoom token")
       ELSE IF ~environment.upload_repo THEN Returns("no upload repository")
       ELSE run_pc' = "fetch" /\ run_outcome' = "running"

\* lines 108-177
StartRun ==
    /\ run_pc = "idle"
    /\ runs < MaxRuns
    /\ \E <<arguments, environment>> \in Invocations, wait \in Waits :
        /\ args' = arguments
        /\ environ' = environment
        /\ clock' = clock + wait
        /\ IF /\ arguments.check_daily_run
              /\ ~arguments.force_reprocess
              /\ ran_recently(run_logs, clock')
           THEN /\ Returns("ran recently")
                /\ UNCHANGED <<run_logs, processed_cache, trail>>
           ELSE SetUp(arguments, environment, clock')
    /\ runs' = runs + 1
    /\ ready_meetings' = <<>>
    /\ meeting_i' = 0
    /\ zoom_recording' = NoRecording
    /\ processed_folders' = <<>>
    /\ counts' = NoCounts
    /\ failed_matches' = <<>>
    /\ UNCHANGED <<cache_file, readme_file, downloads, repo_paths>>
    /\ OnlyRun

\* a variant of Fetched that goes on to the meetings in a dry run too
Fetched_regardless(infos) ==
    /\ Len(infos) <= MaxHandled - Handled
    /\ ready_meetings' = infos
    /\ run_pc' = "meeting" /\ meeting_i' = 1 /\ UNCHANGED run_outcome

\* lines 183-215, with the issues get_meetings_ready_to_process returned
Fetched(infos) ==
    /\ Len(infos) <= MaxHandled - Handled
    /\ ready_meetings' = infos
    /\ IF args.dry_run
       THEN Returns("dry run") /\ UNCHANGED meeting_i
       ELSE run_pc' = "meeting" /\ meeting_i' = 1 /\ UNCHANGED run_outcome

\* the values datetime.now() may have in a run
RECURSIVE ClocksAfter(_)
ClocksAfter(n) ==
    IF n = 0 THEN {START_CLOCK}
    ELSE {c + wait : c \in ClocksAfter(n - 1), wait \in Waits}

Clocks == UNION {ClocksAfter(n) : n \in 1..(MaxRuns + 1)}

\* lines 181-189 for every list of issues the tracker may answer with at a
\* time: the matched_meetings of the ready issues
ReadyAt ==
    {[now |-> now,
      choices |-> {meeting_infos_of(ready_issues_of(all_issues, now, DAYS_BACK,
                                                    BUFFER_HOURS)) :
                   all_issues \in IssueLists}] : now \in Clocks}

\* lines 179-215: all_issues is what the tracker's pages carried
FetchMeetings ==
    /\ run_pc = "fetch"
    /\ \E at \in ReadyAt :
        /\ at.now = clock
        /\ \E infos \in at.choices : Fetched(infos)
    /\ UNCHANGED <<runs, clock, args, environ, run_logs, cache_file, readme_file,
                   downloads, repo_paths, processed_cache, zoom_recording,
                   processed_folders, counts, failed_matches, trail>>
    /\ OnlyRun

\* line 242 of pmissues_monitor.py: requests.get raises
FetchRaises ==
    /\ run_pc = "fetch"
    /\ Raised
    /\ UNCHANGED <<runs, clock, args, environ, run_logs, cache_file, readme_file,
                   downloads, repo_paths, processed_cache, ready_meetings, meeting_i,
                   zoom_recording, processed_folders, counts, failed_matches, trail>>
    /\ OnlyRun

\* the meeting of the loop of line 224
Meeting == ready_meetings[meeting_i]

\* continue: the loop goes to the next meeting
Continue ==
    /\ meeting_i' = meeting_i + 1
    /\ run_pc' = "meeting"
    /\ UNCHANGED run_outcome

\* lines 224-243: the head of the loop
NextMeeting ==
    /\ run_pc = "meeting"
    /\ IF meeting_i > Len(ready_meetings)
       THEN /\ run_pc' = "upload"
            /\ UNCHANGED <<meeting_i, run_outcome, counts, failed_matches, trail>>
       ELSE IF key_raises(Meeting)
       THEN /\ Raised
            /\ Noted(Note(Meeting, "", NoRecording, <<>>, "", "raised"))
            /\ UNCHANGED <<meeting_i, counts, failed_matches>>
       ELSE IF cache_has(processed_cache, get_meeting_key(Meeting)) /\ ~args.force_reprocess
       THEN /\ Continue
            /\ counts' = [counts EXCEPT !.skipped_cached = @ + 1]
            /\ Noted(Note(Meeting, get_meeting_key(Meeting), NoRecording, <<>>, "",
                          "cached"))
            /\ UNCHANGED failed_matches
       ELSE IF ~Meeting.date_str.some \/ Meeting.date_str.val = ""
       THEN /\ Continue
            /\ failed_matches' = Append(failed_matches,
                                        [issue |-> Meeting.issue_title,
                                         reason |-> "No date found in issue"])
            /\ Noted(Note(Meeting, get_meeting_key(Meeting), NoRecording, <<>>, "",
                          "no date"))
            /\ UNCHANGED counts
       ELSE /\ run_pc' = "resolve"
            /\ UNCHANGED <<meeting_i, run_outcome, counts, failed_matches, trail>>
    /\ UNCHANGED <<runs, clock, args, environ, run_logs, cache_file, readme_file,
                   downloads, repo_paths, processed_cache, ready_meetings,
                   zoom_recording, processed_folders>>
    /\ OnlyRun

\* a variant of Resolved without the check of the duration
Resolved_any_length(found) ==
    IF found.kind = "none"
    THEN /\ Continue
         /\ counts' = [counts EXCEPT !.skipped_no_recording = @ + 1]
         /\ failed_matches' = Append(failed_matches,
                                     [issue |-> Meeting.issue_title,
                                      reason |-> "No Zoom recording found"])
         /\ Noted(Note(Meeting, get_meeting_key(Meeting), NoRecording, <<>>, "",
                       "no recording"))
         /\ UNCHANGED zoom_recording
    ELSE /\ run_pc' = "exists"
         /\ zoom_recording' = found.recording
         /\ UNCHANGED <<meeting_i, run_outcome, counts, failed_matches, trail>>

\* lines 255-269 and 272: with the value get_recordings_for_meeting_ids returned
Resolved(found) ==
    IF found.kind = "none"
    THEN /\ Continue
         /\ counts' = [counts EXCEPT !.skipped_no_recording = @ + 1]
         /\ failed_matches' = Append(failed_matches,
                                     [issue |-> Meeting.issue_title,
                                      reason |-> "No Zoom recording found"])
         /\ Noted(Note(Meeting, get_meeting_key(Meeting), NoRecording, <<>>, "",
                       "no recording"))
         /\ UNCHANGED zoom_recording
    ELSE IF duration_of(found.recording) < MIN_DURATION
    THEN /\ Continue
         /\ counts' = [counts EXCEPT !.skipped_short = @ + 1]
         /\ Noted(Note(Meeting, get_meeting_key(Meeting), found.recording, <<>>, "",
                       "short"))
         /\ UNCHANGED <<zoom_recording, failed_matches>>
    ELSE /\ run_pc' = "exists"
         /\ zoom_recording' = found.recording
         /\ UNCHANGED <<meeting_i, run_outcome, counts, failed_matches, trail>>

\* the recordings the listings of the hosts may carry for a target date
Listings(target) ==
    IF target = {} THEN {<<>>}
    ELSE PagesOf(InWindow(window_of(CHOOSE dt \in target : TRUE)), MaxRecordings)

\* get_recordings_for_meeting_ids: None when the date does not parse, else
\* the selection from what the listings carried
resolutions_of(target, ids) ==
    IF target = {} THEN {[kind |-> "none", recording |-> NoRecording]}
    ELSE {select_recording(with_host(collected, WHITELISTED_HOSTS[1]), ids) :
          collected \in Listings(target)}

\* the meeting_info of the issues of the pool
PoolMeetings ==
    {parse_issue_for_meeting_info(issue) : issue \in IssuePool} \ {NoMeetingInfo}

\* what the call of line 249 may return for the meetings of the pool
Resolutions ==
    {[date_str |-> m.date_str, ids |-> m.possible_meeting_ids,
      parses |-> parse_target_date(m.date_str.val) # {},
      found |-> resolutions_of(parse_target_date(m.date_str.val),
                               m.possible_meeting_ids)] :
     m \in {q \in PoolMeetings : q.date_str.some}}

\* lines 245-269
FindRecording ==
    /\ run_pc = "resolve"
    /\ \E r \in Resolutions :
        /\ r.date_str = Meeting.date_str
        /\ r.ids = Meeting.possible_meeting_ids
        /\ \E found \in r.found : Resolved(found)
    /\ UNCHANGED <<runs, clock, args, environ, run_logs, cache_file, readme_file,
                   downloads, repo_paths, processed_cache, ready_meetings,
                   processed_folders>>
    /\ OnlyRun

\* line 249: a listing request raises inside get_recordings_for_meeting_ids
FindRecordingRaises ==
    /\ run_pc = "resolve"
    /\ \E r \in Resolutions :
        /\ r.date_str = Meeting.date_str
        /\ r.ids = Meeting.possible_meeting_ids
        /\ r.parses
    /\ Raised
    /\ Noted(Note(Meeting, get_meeting_key(Meeting), NoRecording, <<>>, "", "raised"))
    /\ UNCHANGED <<runs, clock, args, environ, run_logs, cache_file, readme_file,
                   downloads, repo_paths, processed_cache, ready_meetings, meeting_i,
                   zoom_recording, processed_folders, counts, failed_matches>>
    /\ OnlyRun

\* the date and the type and number of the topic, lines 272-273
recording_date == start_date_of(zoom_recording)
recording_info == extract_meeting_info(zoom_recording.topic)

\* lines 275-286: check_if_exists_on_github answers True on status 200 only;
\* an error status or an exception counts as not found
CheckExists ==
    /\ run_pc = "exists"
    /\ \E response \in GetResponses :
        /\ response.status_code = 200 =>
             exists_path(recording_info.meeting_type, recording_info.meeting_num,
                         recording_date) \in repo_paths
        /\ response.status_code = 404 =>
             exists_path(recording_info.meeting_type, recording_info.meeting_num,
                         recording_date) \notin repo_paths
        /\ IF read_ok(response)
           THEN /\ Continue
                /\ processed_cache' =
                      cache_put(processed_cache, get_meeting_key(Meeting),
                                existing_entry(clock, recording_info.meeting_type,
                                               recording_info.meeting_num,
                                               recording_date))
                /\ counts' = [counts EXCEPT !.skipped_cached = @ + 1]
                /\ Noted(Note(Meeting, get_meeting_key(Meeting), zoom_recording, <<>>,
                              "", "exists"))
           ELSE /\ run_pc' = "download"
                /\ UNCHANGED <<meeting_i, run_outcome, processed_cache, counts, trail>>
    /\ UNCHANGED <<runs, clock, args, environ, run_logs, cache_file, readme_file,
                   downloads, repo_paths, ready_meetings, zoom_recording,
                   processed_folders, failed_matches>>
    /\ OnlyRun

\* lines 288-316, with what download_meeting_artifacts did
Downloaded(done, answers) ==
    /\ downloads' = done.disk
    /\ IF done.raised
       THEN /\ failed_matches' = Append(failed_matches,
                                        [issue |-> Meeting.issue_title,
                                         reason |-> "Download failed"])
            /\ Noted(Note(Meeting, get_meeting_key(Meeting), zoom_recording, answers,
                          done.folder_path, "download failed"))
            /\ UNCHANGED <<processed_folders, counts, processed_cache>>
       ELSE /\ processed_folders' = Append(processed_folders, done.folder_path)
            /\ counts' = [counts EXCEPT !.processed_count = @ + 1]
            /\ processed_cache' =
                  cache_put(processed_cache, get_meeting_key(Meeting),
                            downloaded_entry(clock, recording_info.meeting_type,
                                             recording_info.meeting_num, recording_date))
            /\ Noted(Note(Meeting, get_meeting_key(Meeting), zoom_recording, answers,
                          done.folder_path, "downloaded"))
            /\ UNCHANGED failed_matches

\* what the provider may answer to the download of each recording file
DownloadAnswers(files) == [1..Len(files) -> {"ok", "status", "raise"}]

\* lines 288-316
Download ==
    /\ run_pc = "download"
    /\ \E answers \in DownloadAnswers(zoom_recording.files) :
        Downloaded(download_meeting_artifacts(zoom_recording, Meeting.meeting_number,
                                              downloads, answers, clock),
                   answers)
    /\ Continue
    /\ UNCHANGED <<runs, clock, args, environ, run_logs, cache_file, readme_file,
                   repo_paths, ready_meetings, zoom_recording>>
    /\ OnlyRun

\* lines 318-345 and 369-380.  batch_upload_to_github answers with the files
\* when the branch was moved ("uploaded"), with [] when it was not ("failed"),
\* and with [] when the branch was moved and the answer to the PATCH was lost
\* ("lost")
BatchUpload ==
    /\ run_pc = "upload"
    /\ IF processed_folders = <<>>
       THEN /\ run_pc' = "save"
            /\ UNCHANGED <<repo_paths, processed_cache>>
       ELSE \E answer \in {"uploaded", "failed", "lost"} :
            /\ repo_paths' = IF answer = "failed" THEN repo_paths
                             ELSE repo_paths \cup
                                  folder_repo_paths(processed_folders, downloads)
            /\ IF answer = "uploaded"
               THEN /\ processed_cache' = mark_uploaded(processed_cache, clock)
                    /\ run_pc' = IF uploaded_acd(processed_cache) THEN "readme" ELSE "save"
               ELSE /\ run_pc' = "save"
                    /\ UNCHANGED processed_cache
    /\ UNCHANGED <<runs, clock, args, environ, run_logs, cache_file, readme_file,
                   downloads, ready_meetings, meeting_i, zoom_recording,
                   processed_folders, counts, failed_matches, trail, run_outcome>>
    /\ OnlyRun

\* lines 347-368: update_readme_table reads processed_meetings.json, which
\* line 383 has not written yet; a changed README.md is uploaded when the
\* hosting service lets it.  The link services answer with nothing here:
\* what they add to a row is the subject of SpecReadme.
UpdateReadme ==
    /\ run_pc = "readme"
    /\ \E published \in BOOLEAN :
        /\ readme_file' = update_readme_table(readme_file, cache_file, {}, NoLinks).readme
        /\ repo_paths' = IF published /\ readme_file' # readme_file
                         THEN repo_paths \cup {"README.md"} ELSE repo_paths
    /\ run_pc' = "save"
    /\ UNCHANGED <<runs, clock, args, environ, run_logs, cache_file, downloads,
                   processed_cache, ready_meetings, meeting_i, zoom_recording,
                   processed_folders, counts, failed_matches, trail, run_outcome>>
    /\ OnlyRun

\* a variant of Finish that leaves the cache file as it was
Finish_unsaved ==
    /\ run_pc = "save"
    /\ run_logs' = [run_logs EXCEPT ![Len(run_logs)].summary = TRUE,
                                    ![Len(run_logs)].failed_processing = failed_matches]
    /\ Returns("finished")
    /\ UNCHANGED <<runs, clock, args, environ, cache_file, readme_file, downloads,
                   repo_paths, processed_cache, ready_meetings, meeting_i,
                   zoom_recording, processed_folders, counts, failed_matches, trail>>
    /\ OnlyRun

\* a variant of Finish that leaves the failures unwritten
Finish_unreported ==
    /\ run_pc = "save"
    /\ cache_file' = processed_cache
    /\ run_logs' = [run_logs EXCEPT ![Len(run_logs)].summary = TRUE]
    /\ trail' = [trail EXCEPT ![Len(trail)].cache_written = TRUE]
    /\ Returns("finished")
    /\ UNCHANGED <<runs, clock, args, environ, readme_file, downloads, repo_paths,
                   processed_cache, ready_meetings, meeting_i, zoom_recording,
                   processed_folders, counts, failed_matches>>
    /\ OnlyRun

\* lines 382-402: the cache is saved, the failures are written to
\* failed_processing_<timestamp>.json when there are any, and the summary is
\* logged
Finish ==
    /\ run_pc = "save"
    /\ cache_file' = processed_cache
    /\ run_logs' = [run_logs EXCEPT ![Len(run_logs)].summary = TRUE,
                                    ![Len(run_logs)].failed_processing = failed_matches]
    /\ trail' = [trail EXCEPT ![Len(trail)].cache_written = TRUE]
    /\ Returns("finished")
    /\ UNCHANGED <<runs, clock, args, environ, readme_file, downloads, repo_paths,
                   processed_cache, ready_meetings, meeting_i, zoom_recording,
                   processed_folders, counts, failed_matches>>
    /\ OnlyRun

InitRun ==
    /\ run_pc = "idle"
    /\ runs = 0
    /\ clock = START_CLOCK
    /\ args = NoArgs
    /\ environ = [zoom_token |-> FALSE, upload_repo |-> FALSE]
    /\ run_logs = <<>>
    /\ cache_file = <<>>
    /\ readme_file = Readme("# ACD calls\n\n" \o TABLE_HEAD \o TABLE_RULE)
    /\ downloads = {}
    /\ repo_paths = {}
    /\ NoRunLocals
    /\ trail = <<>>
    /\ run_outcome = ""
    /\ DateIdle
    /\ MatchIdle
    /\ ResolveIdle
    /\ UploadIdle
    /\ ReadmeIdle
    /\ PollIdle
    /\ StoreIdle
    /\ OverlapIdle
    /\ RepeatIdle

NextRun ==
    \/ StartRun
    \/ FetchMeetings
    \/ FetchRaises
    \/ NextMeeting
    \/ FindRecording
    \/ FindRecordingRaises
    \/ CheckExists
    \/ Download
    \/ BatchUpload
    \/ UpdateReadme
    \/ Finish

-----------------------------------------------------------------------------
(* SpecPoll: get_meetings_ready_to_process against a tracker that holds a   *)
(* few issues, called at times around the two ends of the window.           *)

MaxTracked == 3

\* per_page of line 235, scaled down
PerPage == 2

HourOf(y, m, d, h) == 24 * date_ordinal([Y |-> y, m |-> m, d |-> d]) + h

TrackedIssue(number, issue_title, body, closed_at, created_at) ==
    [number |-> number, title |-> issue_title, body |-> body, closed_at |-> closed_at,
     created_at |-> created_at]

\* issues the tracker may hold: open and closed ones, of a whitelisted series
\* or not, with a date on 18, 26 or 27 Sep 2025, a date no calendar has, or
\* no date
PollPool ==
    {TrackedIssue(1234, "All Core Devs - Testing (ACDT) #56", Some("Sep 26, 2025"),
                  Some("2025-09-26T15:30:00Z"), HourOf(2025, 9, 12, 10)),
     TrackedIssue(1250, "All Core Devs - Testing (ACDT) #57", Some("Sep 26, 2025"),
                  None, HourOf(2025, 9, 20, 10)),
     TrackedIssue(1251, "All Core Devs - Execution (ACDE) #222, Sep 27, 2025", None,
                  None, HourOf(2025, 9, 21, 10)),
     TrackedIssue(1240, "All Core Devs - Execution (ACDE) #221, Sep 18, 2025", None,
                  Some("2025-09-18T16:00:00Z"), HourOf(2025, 9, 10, 10)),
     TrackedIssue(1260, "All Core Devs - Testing (ACDT) #58", None,
                  Some("2025-09-26T15:30:00Z"), HourOf(2025, 9, 22, 10)),
     TrackedIssue(1270, "Question about the schedule", Some("Sep 26, 2025"),
                  None, HourOf(2025, 9, 23, 10)),
     TrackedIssue(1280, "All Core Devs - Testing (ACDT) #59", Some("Sep 31, 2025"),
                  Some("2025-09-26T15:30:00Z"), HourOf(2025, 9, 24, 10))}

\* the times of the call: one and two hours after the meeting of 26 Sep, and
\* seven days after it to the hour and an hour later
PollClocks ==
    {HourOf(2025, 9, 26, 15), HourOf(2025, 9, 26, 16),
     HourOf(2025, 10, 3, 14), HourOf(2025, 10, 3, 15)}

TrackerChoices == {t \in SUBSET PollPool : Cardinality(t) <= MaxTracked}

\* sort=created, direction=desc (lines 237-238)
RECURSIVE newest_first(_)
newest_of(issues) == CHOOSE i \in issues : \A j \in issues : j.created_at <= i.created_at
newest_first(issues) ==
    IF issues = {} THEN <<>>
    ELSE <<newest_of(issues)>> \o newest_first(issues \ {newest_of(issues)})

\* the issues of a state, as the tracker lists them
listing(issues, state) ==
    newest_first({i \in issues : i.closed_at.some = (state = "closed")})

\* page number page of a listing
page_of(list, page) ==
    SubSeq(list, (page - 1) * PerPage + 1,
           IF page * PerPage < Len(list) THEN page * PerPage ELSE Len(list))

\* break: the loop of line 229 goes to the next state, or ends
NextState ==
    /\ poll_pc' = IF poll_pc = "open" THEN "closed" ELSE "filter"
    /\ poll_page' = 1

\* lines 248-269, with the issues of the response
Paged(issues) ==
    IF issues = <<>>
    THEN NextState /\ UNCHANGED issues_fetched
    ELSE /\ issues_fetched' = issues_fetched \o issues
         /\ IF \/ issues[Len(issues)].created_at < poll_now - 24 * DAYS_BACK
               \/ poll_page + 1 > MAX_ISSUE_PAGES
            THEN NextState
            ELSE poll_page' = poll_page + 1 /\ UNCHANGED poll_pc

\* lines 232-269: one request for a page of the issues of a state
FetchIssuesPage ==
    /\ poll_pc \in {"open", "closed"}
    /\ \E status_code \in {200, 403} :
         IF status_code # 200
         THEN NextState /\ UNCHANGED issues_fetched
         ELSE Paged(page_of(listing(tracker_issues, poll_pc), poll_page))
    /\ UNCHANGED <<poll_now, tracker_issues, ready_issues>>
    /\ OnlyPoll

\* line 242: requests.get raises
FetchIssuesRaises ==
    /\ poll_pc \in {"open", "closed"}
    /\ poll_pc' = "raised"
    /\ UNCHANGED <<poll_now, tracker_issues, poll_page, issues_fetched, ready_issues>>
    /\ OnlyPoll

\* lines 273-311
FilterReady ==
    /\ poll_pc = "filter"
    /\ ready_issues' = ready_issues_of(issues_fetched, poll_now, DAYS_BACK, BUFFER_HOURS)
    /\ poll_pc' = "done"
    /\ UNCHANGED <<poll_now, tracker_issues, poll_page, issues_fetched>>
    /\ OnlyPoll

InitPoll ==
    /\ poll_pc = "open"
    /\ poll_now \in PollClocks
    /\ tracker_issues \in TrackerChoices
    /\ poll_page = 1
    /\ issues_fetched = <<>>
    /\ ready_issues = <<>>
    /\ DateIdle
    /\ MatchIdle
    /\ ResolveIdle
    /\ UploadIdle
    /\ ReadmeIdle
    /\ RunIdle
    /\ StoreIdle
    /\ OverlapIdle
    /\ RepeatIdle

NextPoll ==
    \/ FetchIssuesPage
    \/ FetchIssuesRaises
    \/ FilterReady

-----------------------------------------------------------------------------
(* SpecStore: save_processed_meetings_cache and get_processed_meetings_cache *)
(* on caches of a few entries.                                               *)

MaxStored == 2

Member(name, value) == [name |-> name, value |-> value]

\* the entries of lines 279-284 and of lines 302-308, the latter also as
\* lines 342-345 leave it and for a topic without a number, and an entry
\* as a file edited by hand may hold it
StoreEntries ==
    {JObj(<<Member("processed_at", JStr("2025-09-28T09:00:00")),
            Member("meeting_type", JStr("ACDT")),
            Member("meeting_num", JStr("56")),
            Member("date", JStr("2025-09-26"))>>),
     JObj(<<Member("processed_at", JStr("2025-09-28T09:00:00")),
            Member("meeting_type", JStr("ACDT")),
            Member("meeting_num", JStr("56")),
            Member("date", JStr("2025-09-26")),
            Member("status", JStr("downloaded"))>>),
     JObj(<<Member("processed_at", JStr("2025-09-28T09:00:00")),
            Member("meeting_type", JStr("ACDE")),
            Member("meeting_num", JStr("221")),
            Member("date", JStr("2025-09-25")),
            Member("status", JStr("uploaded")),
            Member("uploaded_at", JStr("2025-09-28T09:05:00"))>>),
     JObj(<<Member("processed_at", JStr("2025-09-28T09:00:00")),
            Member("meeting_type", JStr("Unknown")),
            Member("meeting_num", JNull),
            Member("date", JStr("2025-09-26")),
            Member("status", JStr("downloaded"))>>),
     JObj(<<Member("status", JNull),
            Member("note", JStr("see \"ACDT\\56\"\n{redo}, "))>>),
     EmptyDict}

StoreKeys == {"1234_2025-09-26", "1240_2025-09-26", "1234_2025-09-27"}

\* the dicts of at most n entries
RECURSIVE StoredUpTo(_)
StoredUpTo(n) ==
    IF n = 0 THEN {<<>>}
    ELSE StoredUpTo(n - 1) \cup
         {Append(q[1], Member(q[2], q[3])) : q \in
            {r \in StoredUpTo(n - 1) \X StoreKeys \X StoreEntries :
                \A k \in 1..Len(r[1]) : r[1][k].name # r[2]}}

\* processed_meetings.json before the call: missing, or as an earlier run
\* left it
FilesBefore ==
    {[exists |-> FALSE, content |-> ""],
     [exists |-> TRUE,
      content |-> "{\n  \"1199_2025-09-19\": {\n    \"status\": \"uploaded\"\n  }\n}"]}

\* lines 62-65
SaveCache ==
    /\ store_pc = "start"
    /\ json_file' = [exists |-> TRUE, content |-> json_dumps(cache_arg, 0)]
    /\ store_pc' = "saved"
    /\ UNCHANGED <<cache_arg, cache_loaded>>
    /\ OnlyStore

\* lines 56-60, with what json.load made of the text
Loaded(r) ==
    IF r.ok
    THEN cache_loaded' = r.value /\ store_pc' = IF store_pc = "saved" THEN "loaded" ELSE "read"
    ELSE UNCHANGED cache_loaded /\ store_pc' = "raised"

\* lines 54-60
GetCache ==
    /\ store_pc \in {"start", "saved"}
    /\ IF json_file.exists
       THEN Loaded(json_loads(json_file.content))
       ELSE cache_loaded' = EmptyDict /\ store_pc' = "read"
    /\ UNCHANGED <<cache_arg, json_file>>
    /\ OnlyStore

InitStore ==
    /\ store_pc = "start"
    /\ cache_arg \in {JObj(members) : members \in StoredUpTo(MaxStored)}
    /\ json_file \in FilesBefore
    /\ cache_loaded = EmptyDict
    /\ DateIdle
    /\ MatchIdle
    /\ ResolveIdle
    /\ UploadIdle
    /\ ReadmeIdle
    /\ RunIdle
    /\ PollIdle
    /\ OverlapIdle
    /\ RepeatIdle

NextStore ==
    \/ SaveCache
    \/ GetCache

-----------------------------------------------------------------------------
(* SpecOverlap: two non-forced invocations of process_recent_meetings with  *)
(* the configuration in place, started by the scheduler or by hand while    *)
(* the clock runs; they share logs/ and processed_meetings.json.            *)

MaxClock == 2

\* the keys of the meetings that are ready
OverlapKeys == {"1234_2025-09-26", "1240_2025-09-26"}

\* time passes
Tick ==
    /\ wall_clock < START_CLOCK + MaxClock
    /\ wall_clock' = wall_clock + 1
    /\ UNCHANGED <<inv_pc, log_dir, shared_cache, inv_cache>>
    /\ OnlyOverlap

\* lines 108-143: the check for a recent run that logged its summary
Guard(p) ==
    /\ inv_pc[p] = "called"
    /\ inv_pc' = [inv_pc EXCEPT ![p] = IF ran_recently(log_dir, wall_clock)
                                       THEN "skipped" ELSE "setup"]
    /\ UNCHANGED <<wall_clock, log_dir, shared_cache, inv_cache>>
    /\ OnlyOverlap

\* lines 145-163: the log file is opened and the cache file is read
OpenLogReadCache(p) ==
    /\ inv_pc[p] = "setup"
    /\ log_dir' = Append(log_dir, [started |-> wall_clock, summary |-> FALSE, owner |-> p])
    /\ inv_cache' = [inv_cache EXCEPT ![p] = shared_cache]
    /\ inv_pc' = [inv_pc EXCEPT ![p] = "loop"]
    /\ UNCHANGED <<wall_clock, shared_cache>>
    /\ OnlyOverlap

\* lines 224-308: a meeting that is not in the local cache is downloaded and
\* entered into it
HandleMeeting(p) ==
    /\ inv_pc[p] = "loop"
    /\ \E key \in OverlapKeys :
        /\ ~cache_has(inv_cache[p], key)
        /\ inv_cache' = [inv_cache EXCEPT ![p] =
              cache_put(@, key, downloaded_entry(wall_clock, "ACDT", Some("56"),
                                                 "2025-09-26"))]
    /\ UNCHANGED <<inv_pc, wall_clock, log_dir, shared_cache>>
    /\ OnlyOverlap

\* line 224: the loop is over
LeaveLoop(p) ==
    /\ inv_pc[p] = "loop"
    /\ inv_pc' = [inv_pc EXCEPT ![p] = "save"]
    /\ UNCHANGED <<wall_clock, log_dir, shared_cache, inv_cache>>
    /\ OnlyOverlap

\* line 383
WriteCache(p) ==
    /\ inv_pc[p] = "save"
    /\ shared_cache' = inv_cache[p]
    /\ inv_pc' = [inv_pc EXCEPT ![p] = "summary"]
    /\ UNCHANGED <<wall_clock, log_dir, inv_cache>>
    /\ OnlyOverlap

\* line 392: the summary section is logged
LogSummary(p) ==
    /\ inv_pc[p] = "summary"
    /\ log_dir' = [k \in 1..Len(log_dir) |->
                     IF log_dir[k].owner = p THEN [log_dir[k] EXCEPT !.summary = TRUE]
                     ELSE log_dir[k]]
    /\ inv_pc' = [inv_pc EXCEPT ![p] = "done"]
    /\ UNCHANGED <<wall_clock, shared_cache, inv_cache>>
    /\ OnlyOverlap

InitOverlap ==
    /\ inv_pc = [p \in Invokers |-> "called"]
    /\ wall_clock = START_CLOCK
    /\ log_dir = <<>>
    /\ shared_cache = <<>>
    /\ inv_cache = [p \in Invokers |-> <<>>]
    /\ DateIdle
    /\ MatchIdle
    /\ ResolveIdle
    /\ UploadIdle
    /\ ReadmeIdle
    /\ RunIdle
    /\ PollIdle
    /\ StoreIdle
    /\ RepeatIdle

NextOverlap ==
    \/ Tick
    \/ \E p \in Invokers : Guard(p)
    \/ \E p \in Invokers : OpenLogReadCache(p)
    \/ \E p \in Invokers : HandleMeeting(p)
    \/ \E p \in Invokers : LeaveLoop(p)
    \/ \E p \in Invokers : WriteCache(p)
    \/ \E p \in Invokers : LogSummary(p)

-----------------------------------------------------------------------------
(* SpecRepeat: calls of process_recent_meetings one after the other with    *)
(* the configuration in place, seen from the cache: the meetings are their  *)
(* keys, and the services choose how the handling of each meeting ends.     *)

MaxRepeats == 2

\* the keys of the meetings that may be ready
RepeatKeys == {"1234_2025-09-26", "1240_2025-09-26"}

\* matched_meetings: the issues of a listing have different keys
RepeatLists ==
    {<<>>} \cup {<<a>> : a \in RepeatKeys}
           \cup {<<a, b>> : <<a, b>> \in {q \in RepeatKeys \X RepeatKeys : q[1] # q[2]}}

\* datetime.now() of a call
RepeatClock == START_CLOCK + RECENT_HOURS * rep_runs

RepeatNoted(result) ==
    rep_log' = Append(rep_log, [run |-> rep_runs, forced |-> rep_forced,
                                key |-> rep_meetings[rep_i], result |-> result])

\* line 154 and lines 179-222
RepeatStart ==
    /\ rep_pc = "idle"
    /\ rep_runs < MaxRepeats
    /\ rep_runs' = rep_runs + 1
    /\ \E forced \in BOOLEAN, matched \in RepeatLists :
        /\ rep_forced' = forced
        /\ rep_meetings' = matched
        /\ rep_cache' = IF forced THEN <<>> ELSE rep_file
    /\ rep_i' = 1
    /\ rep_folders' = <<>>
    /\ rep_pc' = "loop"
    /\ UNCHANGED <<rep_file, rep_log>>
    /\ OnlyRepeat

\* lines 224-234: the meeting is in the cache
RepeatSkipCached ==
    /\ rep_pc = "loop"
    /\ rep_i <= Len(rep_meetings)
    /\ cache_has(rep_cache, rep_meetings[rep_i]) /\ ~rep_forced
    /\ RepeatNoted("cached")
    /\ rep_i' = rep_i + 1
    /\ UNCHANGED <<rep_pc, rep_runs, rep_forced, rep_file, rep_cache, rep_meetings,
                   rep_folders>>
    /\ OnlyRepeat

\* lines 236-269: the meeting has no date, no recording or a short one
RepeatSkipped ==
    /\ rep_pc = "loop"
    /\ rep_i <= Len(rep_meetings)
    /\ ~(cache_has(rep_cache, rep_meetings[rep_i]) /\ ~rep_forced)
    /\ \E result \in {"no date", "no recording", "short"} : RepeatNoted(result)
    /\ rep_i' = rep_i + 1
    /\ UNCHANGED <<rep_pc, rep_runs, rep_forced, rep_file, rep_cache, rep_meetings,
                   rep_folders>>
    /\ OnlyRepeat

\* line 249: a listing request raises inside get_recordings_for_meeting_ids
\* and the exception leaves process_recent_meetings
RepeatRaises ==
    /\ rep_pc = "loop"
    /\ rep_i <= Len(rep_meetings)
    /\ ~(cache_has(rep_cache, rep_meetings[rep_i]) /\ ~rep_forced)
    /\ RepeatNoted("raised")
    /\ rep_pc' = "idle"
    /\ UNCHANGED <<rep_runs, rep_forced, rep_file, rep_cache, rep_meetings, rep_i,
                   rep_folders>>
    /\ OnlyRepeat

\* lines 275-286: the meeting is found in the repository
RepeatExists ==
    /\ rep_pc = "loop"
    /\ rep_i <= Len(rep_meetings)
    /\ ~(cache_has(rep_cache, rep_meetings[rep_i]) /\ ~rep_forced)
    /\ rep_cache' = cache_put(rep_cache, rep_meetings[rep_i],
                              existing_entry(RepeatClock, "ACDT", Some("56"), "2025-09-26"))
    /\ RepeatNoted("exists")
    /\ rep_i' = rep_i + 1
    /\ UNCHANGED <<rep_pc, rep_runs, rep_forced, rep_file, rep_meetings, rep_folders>>
    /\ OnlyRepeat

\* lines 288-316: the download returns or raises
RepeatDownload ==
    /\ rep_pc = "loop"
    /\ rep_i <= Len(rep_meetings)
    /\ ~(cache_has(rep_cache, rep_meetings[rep_i]) /\ ~rep_forced)
    /\ \E returned \in BOOLEAN :
        IF returned
        THEN /\ rep_folders' = Append(rep_folders, rep_meetings[rep_i])
             /\ rep_cache' = cache_put(rep_cache, rep_meetings[rep_i],
                                       downloaded_entry(RepeatClock, "ACDT", Some("56"),
                                                        "2025-09-26"))
             /\ RepeatNoted("downloaded")
        ELSE /\ RepeatNoted("download failed")
             /\ UNCHANGED <<rep_folders, rep_cache>>
    /\ rep_i' = rep_i + 1
    /\ UNCHANGED <<rep_pc, rep_runs, rep_forced, rep_file, rep_meetings>>
    /\ OnlyRepeat

\* lines 318-383: the batch upload, with the entries marked when it
\* succeeded, and the cache written
RepeatUploadSave ==
    /\ rep_pc = "loop"
    /\ rep_i > Len(rep_meetings)
    /\ \E uploaded \in BOOLEAN :
        /\ rep_folders = <<>> => ~uploaded
        /\ rep_cache' = IF uploaded THEN mark_uploaded(rep_cache, RepeatClock)
                        ELSE rep_cache
    /\ rep_file' = rep_cache'
    /\ rep_pc' = "idle"
    /\ UNCHANGED <<rep_runs, rep_forced, rep_meetings, rep_i, rep_folders, rep_log>>
    /\ OnlyRepeat

InitRepeat ==
    /\ RepeatIdle
    /\ DateIdle
    /\ MatchIdle
    /\ ResolveIdle
    /\ UploadIdle
    /\ ReadmeIdle
    /\ RunIdle
    /\ PollIdle
    /\ StoreIdle
    /\ OverlapIdle

NextRepeat ==
    \/ RepeatStart
    \/ RepeatSkipCached
    \/ RepeatSkipped
    \/ RepeatRaises
    \/ RepeatExists
    \/ RepeatDownload
    \/ RepeatUploadSave

-----------------------------------------------------------------------------
vars == <<dateVars, matchVars, resolveVars, uploadVars, readmeVars, runVars, pollVars, storeVars, overlapVars, repeatVars>>

SpecDate    == InitDate /\ [][NextDate]_vars
SpecMatch   == InitMatch /\ [][NextMatch]_vars
SpecResolve == InitResolve /\ [][NextResolve]_vars
SpecUpload  == InitUpload /\ [][NextUpload]_vars
SpecReadme  == InitReadme /\ [][NextReadme]_vars
SpecRun     == InitRun /\ [][NextRun]_vars
SpecPoll    == InitPoll /\ [][NextPoll]_vars
SpecStore   == InitStore /\ [][NextStore]_vars
SpecOverlap == InitOverlap /\ [][NextOverlap]_vars
SpecRepeat  == InitRepeat /\ [][NextRepeat]_vars

-----------------------------------------------------------------------------
(* Claims about parse_issue_for_meeting_info, under SpecMatch.              *)

ParsedIds == parsed.info.possible_meeting_ids

\* C1: for every whitelist entry, a title that contains the entry's display
\* name, in any letter casing and with spaces added or removed, is matched,
\* and possible_meeting_ids contains the entry's identifier.
C1_NameInTitleMatches ==
    (parsed.done /\ caseSpaceOnly) =>
        /\ parsed.info.matched
        /\ \A i \in WhitelistIndexes :
            WHITELISTED_MEETINGS[i].name = srcName =>
                \E k \in 1..Len(ParsedIds) :
                    ParsedIds[k] = WHITELISTED_MEETINGS[i].meeting_id

\* C1 witness: a parsed title in which the name no longer appears as written
\* (its casing or spacing was changed) and which was matched.
C1_Witness ==
    /\ parsed.done
    /\ caseSpaceOnly
    /\ edits >= 1
    /\ ~str_in(srcName, title)
    /\ parsed.info.matched

\* the claim's three ways for an entry's name to match a title
EntryMatchesTitle(i, t) ==
    LET name == WHITELISTED_MEETINGS[i].name
        squeezed(x) == str_remove(str_lower(x), " ")
        before_paren == IF str_in("(", name)
                        THEN str_strip(slice(name, 0, str_find("(", name)))
                        ELSE name
    IN  \/ str_in(str_lower(name), str_lower(t))
        \/ str_in(squeezed(name), squeezed(t))
        \/ str_in(squeezed(before_paren), squeezed(t))

MatchingEntries == {i \in WhitelistIndexes : EntryMatchesTitle(i, title)}

\* C2: possible_meeting_ids holds the identifiers of exactly the whitelist
\* entries whose name matches the title, all of them and in whitelist order,
\* and the result is None exactly when no entry matches.
C2_AllMatchesInWhitelistOrder ==
    parsed.done =>
        /\ parsed.info.matched <=> MatchingEntries # {}
        /\ MatchingEntries = {} => parsed.info = NoMeetingInfo
        /\ Len(ParsedIds) = Cardinality(MatchingEntries)
        /\ \A i \in MatchingEntries :
            ParsedIds[Cardinality({j \in MatchingEntries : j < i}) + 1]
                = WHITELISTED_MEETINGS[i].meeting_id

\* C2 witness: a parsed title that entries of two different names match.
C2_Witness ==
    /\ parsed.done
    /\ \E i, j \in MatchingEntries :
        WHITELISTED_MEETINGS[i].name # WHITELISTED_MEETINGS[j].name
    /\ Len(ParsedIds) >= 2

-----------------------------------------------------------------------------
(* Claims about extract_date_from_text, under SpecDate.                     *)

MatchingPatterns == {k \in 1..NumDatePatterns : PatternMatches(k, text)}

FirstMatchingPattern == CHOOSE k \in MatchingPatterns : \A j \in MatchingPatterns : k <= j

\* a string holds no run of white space but single spaces inside it
WhitespaceCollapsed(s) ==
    /\ \A i \in 1..Len(s) : ch(s, i) \in Whitespace =>
            ch(s, i) = " " /\ ch(s, i + 1) \notin Whitespace
    /\ ch(s, 1) \notin Whitespace

\* no digit of the string is followed by a lower-case ordinal suffix
OrdinalsRemoved(s) ==
    \A i \in 1..Len(s) : ch(s, i) \in Digits => slice(s, i, i + 2) \notin OrdinalSuffixes

-----------------------------------------------------------------------------
(* Claims about get_recordings_for_meeting_ids, under SpecResolve.          *)

Returned == resolve_pc = "done" /\ resolved.kind = "recording"

\* the positions of all_meetings whose ID is one of meeting_ids
MatchingPositions ==
    {k \in 1..Len(all_meetings) :
        \E i \in 1..Len(meeting_ids) :
            str_remove(str_remove(all_meetings[k].id, " "), "-")
                = str_remove(str_remove(meeting_ids[i], " "), "-")}

DurationAt(k) ==
    IF all_meetings[k].duration.some THEN all_meetings[k].duration.val ELSE 0

HostIndex(email) == CHOOSE h \in 1..Len(WHITELISTED_HOSTS) : WHITELISTED_HOSTS[h] = email

SameRecording(a, b) ==
    /\ a.id = b.id /\ a.topic = b.topic /\ a.duration = b.duration
    /\ a.start_time = b.start_time /\ a.host_email = b.host_email

\* C3: the recording returned is a matching recording of the greatest
\* duration (a missing duration counting as 0) and, among those of that
\* duration, the first one collected; recordings are collected host by host
\* in whitelist order, in listing order within a host.
C3_LongestFirstEncountered ==
    Returned =>
        /\ \A k \in 1..(Len(all_meetings) - 1) :
              HostIndex(all_meetings[k].host_email) <= HostIndex(all_meetings[k + 1].host_email)
        /\ listed = all_meetings
        /\ \E k \in MatchingPositions :
              /\ SameRecording(resolved.recording, all_meetings[k])
              /\ \A j \in MatchingPositions :
                    /\ DurationAt(j) <= DurationAt(k)
                    /\ DurationAt(j) = DurationAt(k) => k <= j

\* two different matching recordings tie for the greatest duration
C3_Witness ==
    /\ Returned
    /\ \E j, k \in MatchingPositions :
          /\ j < k
          /\ ~SameRecording(all_meetings[j], all_meetings[k])
          /\ DurationAt(j) = DurationAt(k)
          /\ \A i \in MatchingPositions : DurationAt(i) <= DurationAt(j)

DateUnparseable ==
    /\ \A i \in 1..Len(RESOLVER_FORMATS) :
          strptime(str_remove(meeting_date, ","), RESOLVER_FORMATS[i]) = {}
    /\ dateutil_parse(meeting_date) = {}

MatchingListed ==
    {k \in 1..Len(listed) :
        \E i \in 1..Len(meeting_ids) :
            str_remove(str_remove(listed[k].id, " "), "-")
                = str_remove(str_remove(meeting_ids[i], " "), "-")}

\* C4 (amended): the call returns None when the date cannot be parsed, and
\* when no listing that answered 200 carried a recording with a matching ID;
\* a listing that answers with an error status only ends that host's listing,
\* so the call still returns a recording when an answered listing carried a
\* match; a listing request that raises makes the call raise.
C4_NoneWhenNothingCollected ==
    resolve_pc = "done" =>
        /\ DateUnparseable => resolved.kind = "none"
        /\ resolved.kind = "raised" => ~DateUnparseable
        /\ (~DateUnparseable /\ resolved.kind # "raised") =>
              (resolved.kind = "none" <=> MatchingListed = {})

\* a listing call answered with an error status and the call returned None
C4_Witness ==
    /\ resolve_pc = "done"
    /\ ~DateUnparseable
    /\ api_errors >= 1
    /\ resolved.kind = "none"

\* C4 as stated: whenever a listing call errors, the call returns None
C4_NoneOnApiError ==
    (resolve_pc = "done" /\ api_errors >= 1) => resolved.kind = "none"

-----------------------------------------------------------------------------
(* Claims about batch_upload_to_github, under SpecUpload.                   *)

UPLOAD_STEPS == <<"repo", "ref", "commit", "tree", "new_commit", "update">>

Succeeded(made) ==
    /\ ~made.response.raised
    /\ made.response.status_code = (IF made.request \in {"tree", "new_commit"} THEN 201 ELSE 200)

\* the requests made are the first ones of UPLOAD_STEPS, in that order
InStepOrder ==
    /\ Len(requests_made) <= Len(UPLOAD_STEPS)
    /\ \A k \in 1..Len(requests_made) : requests_made[k].request = UPLOAD_STEPS[k]

\* C5 (amended): the call returns a non-empty list only if the six requests
\* all succeeded, in order, and then the branch is at the new commit, whose
\* tree holds the returned files on top of the old tree; a request that does
\* not succeed is the last one made and the call returns the empty list;
\* nothing created on the server is removed; the branch reference is left
\* unchanged unless the reference update was carried out, which after a
\* failed call is the case only when the update's answer was lost to a
\* network error.
C5_FailsClosed ==
    /\ InStepOrder
    /\ \A k \in 1..Len(requests_made) :
          ~Succeeded(requests_made[k]) =>
              /\ k = Len(requests_made)
              /\ upload_pc = "done"
              /\ upload_result = <<>>
    /\ (upload_pc = "done" /\ upload_result # <<>>) =>
          /\ Len(requests_made) = Len(UPLOAD_STEPS)
          /\ \A k \in 1..Len(requests_made) : Succeeded(requests_made[k])
          /\ server.branch_ref = up.new_commit_sha
          /\ [sha |-> up.new_commit_sha, tree |-> up.new_tree_sha,
              parent |-> InitialServer.branch_ref] \in server.commits
          /\ [sha |-> up.new_tree_sha, base_tree |-> 2, paths |-> upload_result]
                \in server.trees
    /\ InitialServer.trees \subseteq server.trees
    /\ InitialServer.commits \subseteq server.commits
    /\ \A k \in 1..Len(requests_made) :
          (requests_made[k].request \in {"tree", "new_commit"} /\ requests_made[k].response.applied)
              => Cardinality(server.trees) + Cardinality(server.commits) > 2
    /\ server.branch_ref # InitialServer.branch_ref =>
          /\ Len(requests_made) = Len(UPLOAD_STEPS)
          /\ requests_made[Len(UPLOAD_STEPS)].response.applied
          /\ upload_result = <<>> => requests_made[Len(UPLOAD_STEPS)].response.raised

\* the commit was created and the reference update was then refused
C5_Witness ==
    /\ upload_pc = "done"
    /\ Len(requests_made) = Len(UPLOAD_STEPS)
    /\ requests_made[Len(UPLOAD_STEPS)].response.status_code = 422
    /\ upload_result = <<>>
    /\ server.branch_ref = InitialServer.branch_ref
    /\ Cardinality(server.commits) = 2

\* C5 as stated: after a call that returns the empty list the branch
\* reference is where it was
C5_BranchUnchangedOnFailure ==
    (upload_pc = "done" /\ upload_result = <<>>) =>
        server.branch_ref = InitialServer.branch_ref

-----------------------------------------------------------------------------
(* Claims about update_readme_table, under SpecReadme.                      *)

\* C6: a call of update_readme_table that follows another one, the cache
\* being the same, reports no change and leaves README.md exactly as the
\* call before it left it.
C6_SecondCallAddsNothing ==
    \A k \in 2..Len(update_log) :
        /\ update_log[k].before = update_log[k - 1].after
        /\ ~update_log[k].changed
        /\ update_log[k].after = update_log[k].before

\* the first call added rows to a table that had rows, the second call ran
C6_Witness ==
    /\ Len(update_log) = 2
    /\ update_log[1].changed
    /\ parse_existing_meetings(update_log[1].before.content) # {}

\* the (type, num) pairs of the cache entries that stand for an ACD call
CacheMeetings ==
    {<<processed_meetings[k].data.meeting_type, processed_meetings[k].data.meeting_num.val>> :
        k \in {j \in 1..Len(processed_meetings) :
                 /\ processed_meetings[j].data.meeting_type \in {"ACDE", "ACDT", "ACDC"}
                 /\ processed_meetings[j].data.meeting_num.some}}

\* text is made of whole lines, each a table row of a meeting in allowed
RowsOf(inserted, allowed) ==
    LET lines == split_on(inserted, "n")
    IN  /\ Len(lines) >= 2
        /\ lines[Len(lines)] = ""
        /\ \A k \in 1..(Len(lines) - 1) :
              /\ slice(lines[k], 0, 2) = "| "
              /\ row_meeting(lines[k]) # {}
              /\ row_meeting(lines[k]) \subseteq allowed

\* after is before with rows of new meetings inserted at the start of a line
InsertedRowsOnly(before, after) ==
    \E at \in 0..Len(before) :
        /\ at = 0 \/ ch(before, at) = "\n"
        /\ Len(after) > Len(before)
        /\ slice(after, 0, at) = slice(before, 0, at)
        /\ slice(after, at + (Len(after) - Len(before)), Len(after))
              = slice(before, at, Len(before))
        /\ RowsOf(slice(after, at, at + (Len(after) - Len(before))),
                  CacheMeetings \ parse_existing_meetings(before))

\* C7: a call either leaves README.md as it is, or inserts, at the start of
\* a line, whole lines that are rows of ACDE/ACDT/ACDC cache entries whose
\* (type, number) the table did not hold; everything that was in the file
\* is still there, unchanged and in the same order.
C7_AppendOnly ==
    \A k \in 1..Len(update_log) :
        IF update_log[k].changed
        THEN /\ update_log[k].before.exists
             /\ update_log[k].after.exists
             /\ InsertedRowsOnly(update_log[k].before.content, update_log[k].after.content)
        ELSE update_log[k].after = update_log[k].before

\* a call added a row to a table that had rows, text following the table
C7_Witness ==
    \E k \in 1..Len(update_log) :
        /\ update_log[k].changed
        /\ parse_existing_meetings(update_log[k].before.content) # {}
        /\ str_in("Notes", update_log[k].before.content)

-----------------------------------------------------------------------------
(* Claims about process_recent_meetings, under SpecRun.                     *)

\* every meeting a run went through, with the run
RunNotes ==
    UNION {{[run |-> trail[k], note |-> trail[k].meetings[j]] :
                j \in 1..Len(trail[k].meetings)} : k \in 1..Len(trail)}

\* the scenario: the issue "All Core Devs - Testing (ACDT) #56", closed, in a
\* run that is not forced and starts with an empty cache, and a recording of
\* 45 minutes returned for it
InScenario(rn) ==
    /\ rn.note.issue_title = "All Core Devs - Testing (ACDT) #56"
    /\ rn.note.closed_at.some
    /\ ~rn.run.force_reprocess
    /\ rn.run.cache_at_start = <<>>
    /\ rn.note.recording # NoRecording
    /\ rn.note.recording.duration = Minutes(45)

ScenarioFolder(rn) == "downloads/ACDT/Call-056_" \o start_date_of(rn.note.recording)

\* the folder of the scenario holds the transcript, the chat and a metadata
\* file whose meeting_number is "56"
FolderComplete(rn) ==
    \E f \in downloads :
        /\ f.path = ScenarioFolder(rn)
        /\ {"transcript.vtt", "chat.txt", "metadata.json"} \subseteq f.files
        /\ f.metadata.written
        /\ f.metadata.meeting_number = Some("56")

\* the recording has an ACDT topic and lists a transcript and a chat, the
\* run got to the download, and every download was answered with status 200
DownloadsAnswered(rn) ==
    /\ extract_meeting_info(rn.note.recording.topic).meeting_type = "ACDT"
    /\ \E k \in 1..Len(rn.note.recording.files) : rn.note.recording.files[k] = "TRANSCRIPT"
    /\ \E k \in 1..Len(rn.note.recording.files) : rn.note.recording.files[k] = "CHAT"
    /\ rn.note.result \in {"downloaded", "download failed"}
    /\ Len(rn.note.answers) = Len(rn.note.recording.files)
    /\ \A k \in 1..Len(rn.note.answers) : rn.note.answers[k] = "ok"

CacheEntriesWritten ==
    {processed_cache[k] : k \in 1..Len(processed_cache)}
        \cup {cache_file[k] : k \in 1..Len(cache_file)}

\* type, number, date and the time of processing are recorded
RecordsMeeting(entry) ==
    /\ entry.data.meeting_type # ""
    /\ entry.data.meeting_num.some => IsDigits(entry.data.meeting_num.val)
    /\ entry.data.date.some
    /\ Len(entry.data.date.val) = 10
    /\ entry.data.processed_at \in Clocks

\* what the last run did with the meeting of a key of its cache
WrittenAs(key) ==
    {trail[Len(trail)].meetings[j].result : j \in
        {i \in 1..Len(trail[Len(trail)].meetings) :
            /\ trail[Len(trail)].meetings[i].key = key
            /\ trail[Len(trail)].meetings[i].result \in {"exists", "downloaded"}}}

\* C10 (amended): every entry of the cache records type, number, date and
\* the time of processing; an entry written after a download records the
\* status 'downloaded', which a successful batch upload turns into
\* 'uploaded' together with the time of the upload; an entry written because
\* the meeting was found in the upload repository records no status.
C10_EntriesRecorded ==
    /\ \A entry \in CacheEntriesWritten :
          /\ RecordsMeeting(entry)
          /\ entry.data.status \in {None, Some("downloaded"), Some("uploaded")}
          /\ entry.data.uploaded_at.some <=> entry.data.status = Some("uploaded")
    /\ trail # <<>> =>
          \A k \in 1..Len(processed_cache) :
              /\ "exists" \in WrittenAs(processed_cache[k].key) =>
                    processed_cache[k].data.status = None
              /\ "downloaded" \in WrittenAs(processed_cache[k].key) =>
                    processed_cache[k].data.status \in {Some("downloaded"), Some("uploaded")}

\* a meeting that one run downloaded was found in the upload repository by
\* a later run, whose entry without a status is in the saved cache
C10_Witness ==
    \E k \in 1..Len(cache_file) :
        /\ cache_file[k].data.status = None
        /\ \E rn \in RunNotes :
              rn.note.key = cache_file[k].key /\ rn.note.result = "downloaded"
        /\ \E rn \in RunNotes :
              rn.note.key = cache_file[k].key /\ rn.note.result = "exists"

\* C10 as stated: every entry has the status 'downloaded' or 'uploaded'
C10_StatusAlwaysPresent ==
    \A entry \in CacheEntriesWritten :
        entry.data.status \in {Some("downloaded"), Some("uploaded")}

\* the first ten characters of the close time of the issue of a note
CloseDay(note) == slice(note.closed_at.val, 0, 10)

\* the notes of the meetings for which a key was built
KeyedNotes == {rn \in RunNotes : rn.note.closed_at.some}

\* C11 (amended): the key is built from the issue number and the day the
\* issue was closed: meetings of different issues never receive the same
\* key, a meeting receives the same key in every run in which its issue has
\* the same close day, and a run skips a meeting as cached exactly when the
\* key is in the cache the run started from (which is empty in a forced run).
C11_KeyOfIssueAndCloseDay ==
    /\ \A a \in KeyedNotes : \A b \in KeyedNotes :
          /\ a.note.issue_number # b.note.issue_number => a.note.key # b.note.key
          /\ (a.note.issue_number = b.note.issue_number /\ CloseDay(a.note) = CloseDay(b.note))
                => a.note.key = b.note.key
    /\ \A rn \in KeyedNotes :
          rn.note.result = "cached" <=> cache_has(rn.run.cache_read, rn.note.key)

\* a run skipped as cached a meeting that an earlier run had entered into
\* the cache under the same key
C11_Witness ==
    \E a \in KeyedNotes : \E b \in KeyedNotes :
        /\ a.run.started < b.run.started
        /\ a.note.issue_number = b.note.issue_number
        /\ a.note.key = b.note.key
        /\ a.note.result \in {"downloaded", "exists"}
        /\ b.note.result = "cached"

\* C11 as stated: a meeting that an earlier run entered into the cache file
\* is skipped as cached by every later run that handles it
C11_CachedAlwaysRecognized ==
    \A a \in RunNotes : \A b \in RunNotes :
        (/\ a.run.started < b.run.started
         /\ a.note.issue_number = b.note.issue_number
         /\ a.note.result \in {"downloaded", "exists"}
         /\ cache_has(b.run.cache_at_start, a.note.key))
            => b.note.result = "cached"

\* the run that passed the check of lines 108-143 last
LastRun == trail[Len(trail)]

\* the last run went into the loop of line 224 and is over, and a key was
\* built for every meeting it handled
LoopLeft ==
    /\ run_pc = "idle"
    /\ run_outcome \in {"finished", "raised"}
    /\ trail # <<>>
    /\ LastRun.meetings # <<>>
    /\ \A j \in 1..Len(LastRun.meetings) : LastRun.meetings[j].closed_at.some

\* C12 as stated: a failure while one matched meeting is handled never ends
\* the run: every matched meeting is handled, the cache is written and the
\* summary is logged.
C12_FailureNeverAborts ==
    LoopLeft =>
        /\ run_outcome = "finished"
        /\ Len(LastRun.meetings) = Len(ready_meetings)
        /\ cache_file = processed_cache
        /\ run_logs[Len(run_logs)].summary

\* the step is the start of a run that the check of lines 108-143 lets through
RunSetUp == run_pc = "idle" /\ runs' = runs + 1 /\ run_outcome' # "ran recently"

\* C13: a run that finds no access token, or no owner or name of the upload
\* repository, returns from its set-up: it fetches no issue, and downloads/,
\* the upload repository, README.md and the cache file are left as they
\* were; no later step of a run is ever taken without the token and the
\* repository settings.
C13_AbortsUnconfigured ==
    /\ [](run_pc # "idle" => environ.zoom_token /\ environ.upload_repo)
    /\ [][(RunSetUp /\ ~(environ'.zoom_token /\ environ'.upload_repo)) =>
            /\ run_pc' = "idle"
            /\ run_outcome' \in {"no zoom token", "no upload repository"}
            /\ ready_meetings' = <<>>
            /\ processed_folders' = <<>>
            /\ UNCHANGED <<cache_file, downloads, repo_paths, readme_file>>]_vars

\* a run returned for want of the token or of the repository settings while
\* the cache file held entries
C13_Witness ==
    /\ run_outcome \in {"no zoom token", "no upload repository"}
    /\ ~(environ.zoom_token /\ environ.upload_repo)
    /\ cache_file # <<>>
    /\ processed_cache = cache_file

\* the reason a run records for a meeting of the given result, "" when it
\* records none
FailureReason(result) ==
    CASE result = "no date" -> "No date found in issue"
      [] result = "no recording" -> "No Zoom recording found"
      [] result = "download failed" -> "Download failed"
      [] OTHER -> ""

FailedNotes(notes) == SelectSeq(notes, LAMBDA n : FailureReason(n.result) # "")

FailuresOf(notes) ==
    [k \in 1..Len(FailedNotes(notes)) |->
        [issue |-> FailedNotes(notes)[k].issue_title,
         reason |-> FailureReason(FailedNotes(notes)[k].result)]]

\* C14 (amended): the failed_processing file of a run that reached its end
\* lists, in the order of handling and each with its reason, exactly the
\* meetings the run found without a date, without a recording or failed to
\* download; a meeting skipped for a short recording is not listed, and a
\* run that did not reach its end wrote no failure list
C14_FailuresWritten ==
    /\ Len(run_logs) = Len(trail)
    /\ \A k \in 1..Len(run_logs) :
          run_logs[k].failed_processing =
             IF run_logs[k].summary THEN FailuresOf(trail[k].meetings) ELSE <<>>

C14_Witness ==
    /\ run_pc = "idle"
    /\ run_outcome = "finished"
    /\ \E j \in 1..Len(LastRun.meetings) : LastRun.meetings[j].result = "short"
    /\ \E j \in 1..Len(LastRun.meetings) :
          LastRun.meetings[j].result \in {"no recording", "download failed"}
    /\ Len(run_logs[Len(run_logs)].failed_processing) = 1

\* C14 as stated: at the end of a run every meeting handled and neither
\* downloaded nor skipped as cached or published is in the written list
C14_EveryOtherMeetingListed ==
    (run_pc = "idle" /\ run_outcome = "finished") =>
        \A j \in 1..Len(LastRun.meetings) :
            LastRun.meetings[j].result \notin {"downloaded", "cached", "exists"} =>
                \E f \in 1..Len(run_logs[Len(run_logs)].failed_processing) :
                    /\ run_logs[Len(run_logs)].failed_processing[f].issue =
                          LastRun.meetings[j].issue_title
                    /\ run_logs[Len(run_logs)].failed_processing[f].reason # ""

\* a call of process_recent_meetings
RunCalled == run_pc = "idle" /\ runs' = runs + 1

\* an earlier run logged its summary and started less than six hours before
SummaryWithinSixHours(now) ==
    \E k \in 1..Len(run_logs) :
        /\ run_logs[k].summary
        /\ now - run_logs[k].started < RECENT_HOURS

RunEnded == run_pc = "idle" /\ run_outcome \notin {"", "ran recently"}

\* C17 (amended): a run that passes the recent-run guard reads the cache file
\* at its start unless it is forced, when it starts from an empty cache; the
\* cache file is written only by the save at the end of a run, with the
\* cache of that run, and a run that ended wrote it exactly when it reached
\* that end, not when it returned early or raised
C17_ReadUnlessForcedWrittenAtEnd ==
    /\ [](\A k \in 1..Len(trail) :
            trail[k].cache_read =
               IF trail[k].force_reprocess THEN <<>> ELSE trail[k].cache_at_start)
    /\ [](RunEnded => (LastRun.cache_written <=> run_outcome = "finished"))
    /\ [][IF run_pc = "save" /\ run_pc' = "idle"
          THEN cache_file' = processed_cache /\ LastRun'.cache_written
          ELSE cache_file' = cache_file]_vars

C17_Witness ==
    /\ RunEnded
    /\ run_outcome = "finished"
    /\ LastRun.force_reprocess
    /\ LastRun.cache_at_start # <<>>
    /\ LastRun.cache_read = <<>>
    /\ LastRun.cache_written
    /\ cache_file # LastRun.cache_at_start

\* C17 as stated: every run that passed the guard read the cache file at its
\* start and wrote it at its end
C17_AlwaysReadAndWritten ==
    RunEnded =>
        /\ LastRun.cache_read = LastRun.cache_at_start
        /\ LastRun.cache_written

\* C20 as stated: a ready meeting whose issue is still open gets a cache key
\* and goes on to the resolution of its recording without the run raising
C20_OpenIssueProcessed ==
    \A rn \in RunNotes :
        ~rn.note.closed_at.some =>
            /\ rn.note.key # ""
            /\ rn.note.result # "raised"

-----------------------------------------------------------------------------
(* Claims about get_meetings_ready_to_process, under SpecPoll.              *)

\* the time the meeting of an issue is scheduled at
ScheduledAt(issue) == parse_meeting_datetime(meeting_date_of(issue))

ReadyIssues == {ready_issues[k] : k \in 1..Len(ready_issues)}
FetchedIssues == {issues_fetched[k] : k \in 1..Len(issues_fetched)}

\* C19: get_meetings_ready_to_process returns an issue, open or closed, only
\* if the tracker listed it, its title matches a whitelist entry, a date was
\* extracted from it and parses, and the meeting time, 14:00 of that day, is
\* not earlier than now minus days_back days and not later than now minus
\* buffer_hours hours
C19_ReadyOnlyInWindow ==
    poll_pc = "done" =>
        \A issue \in ReadyIssues :
            /\ issue \in FetchedIssues
            /\ matched_meetings(issue.title) # <<>>
            /\ meeting_date_of(issue).some
            /\ ScheduledAt(issue).some
            /\ ScheduledAt(issue).hours % 24 = MEETING_HOUR
            /\ ScheduledAt(issue).hours >= poll_now - 24 * DAYS_BACK
            /\ ScheduledAt(issue).hours <= poll_now - BUFFER_HOURS

C19_Witness ==
    /\ poll_pc = "done"
    /\ \E issue \in ReadyIssues :
          /\ ~issue.closed_at.some
          /\ ScheduledAt(issue).hours = poll_now - BUFFER_HOURS
    /\ \E issue \in FetchedIssues \ ReadyIssues :
          /\ matched_meetings(issue.title) # <<>>
          /\ ScheduledAt(issue).some
          /\ ScheduledAt(issue).hours > poll_now - BUFFER_HOURS

-----------------------------------------------------------------------------
(* Claims about the cache file, under SpecStore.                            *)

KeysOf(dict) == [k \in 1..Len(dict.members) |-> dict.members[k].name]

\* the status of an entry: whether it has one, and which
StatusOf(entry) ==
    IF \E k \in 1..Len(entry.members) : entry.members[k].name = "status"
    THEN [present |-> TRUE,
          value |-> (CHOOSE m \in {entry.members[k] : k \in 1..Len(entry.members)} :
                        m.name = "status").value]
    ELSE [present |-> FALSE, value |-> JNull]

\* C18: get_processed_meetings_cache after save_processed_meetings_cache
\* returns the keys of the saved cache and for every key the status saved
\* with it (the same string, the same null, or none); the whole dict is the
\* one saved
C18_CacheRoundTrip ==
    store_pc # "raised" /\
    (store_pc = "loaded" =>
        /\ KeysOf(cache_loaded) = KeysOf(cache_arg)
        /\ \A k \in 1..Len(cache_arg.members) :
              StatusOf(cache_loaded.members[k].value) =
                 StatusOf(cache_arg.members[k].value)
        /\ cache_loaded = cache_arg)

C18_Witness ==
    /\ store_pc = "loaded"
    /\ Len(cache_arg.members) = 2
    /\ \E k \in 1..2 : StatusOf(cache_loaded.members[k].value) =
                          [present |-> TRUE, value |-> JStr("downloaded")]
    /\ \E k \in 1..2 : StatusOf(cache_loaded.members[k].value) =
                          [present |-> TRUE, value |-> JNull]
    /\ json_file.content # ""

-----------------------------------------------------------------------------
(* Claims about invocations under way together, under SpecOverlap.          *)

\* the invocation is between its cache read and its cache write
InProgress(p) == inv_pc[p] \in {"loop", "save"}

\* C16 as stated: a non-forced invocation does not get past the check while
\* a run started within the last six hours is in progress, so that no two
\* runs are between their cache read and their cache write together
C16_RunsNeverOverlap ==
    \A p \in Invokers : \A q \in Invokers \ {p} :
        ~(InProgress(p) /\ InProgress(q))

-----------------------------------------------------------------------------
(* Claims about the meeting number, under SpecMatch.                        *)

\* the positions of the title where a '#' stands before a digit
HashNumberAt == {i \in 1..Len(title) : ch(title, i) = "#" /\ ch(title, i + 1) \in Digits}

\* the digits that follow position i, up to the first character that is none
DigitsAfter(i) ==
    SubSeq(title, i + 1,
           CHOOSE e \in i..Len(title) :
              /\ \A k \in (i + 1)..e : ch(title, k) \in Digits
              /\ ch(title, e + 1) \notin Digits)

\* C21 (amended): for a title that matches the whitelist, meeting_number is
\* the digits that follow the first '#' of the title that stands before a
\* digit, wherever in the title it stands, and none when the title has no
\* such '#'
C21_NumberOfFirstHash ==
    (parsed.done /\ parsed.info.matched) =>
        IF HashNumberAt = {} THEN parsed.info.meeting_number = None
        ELSE parsed.info.meeting_number =
                Some(DigitsAfter(CHOOSE i \in HashNumberAt : \A j \in HashNumberAt : i <= j))

C21_Witness ==
    /\ parsed.done
    /\ parsed.info.matched
    /\ Cardinality(HashNumberAt) = 2
    /\ parsed.info.meeting_number = Some("57")
    /\ \E i \in HashNumberAt : DigitsAfter(i) = "58"

\* C21 as stated: with several "#<digits>" in the title the number is that
\* of the last one
C21_NumberOfLastHash ==
    (parsed.done /\ parsed.info.matched) =>
        IF HashNumberAt = {} THEN parsed.info.meeting_number = None
        ELSE parsed.info.meeting_number =
                Some(DigitsAfter(CHOOSE i \in HashNumberAt : \A j \in HashNumberAt : i >= j))

-----------------------------------------------------------------------------
(* Further claims about process_recent_meetings, under SpecRun.             *)

\* C22: a dry run resolves no recording, downloads nothing, uploads nothing
\* and leaves the cache file and the README as they were: it ends after the
\* fetch of the ready meetings
C22_DryRunProcessesNothing ==
    /\ [](args.dry_run => run_pc \in {"idle", "fetch"})
    /\ [][args'.dry_run =>
            /\ zoom_recording' = NoRecording
            /\ processed_folders' = <<>>
            /\ processed_cache' = processed_cache \/ run_pc = "idle"
            /\ UNCHANGED <<cache_file, downloads, repo_paths, readme_file>>]_vars

C22_Witness ==
    /\ run_pc = "idle"
    /\ run_outcome = "dry run"
    /\ args.dry_run
    /\ ready_meetings # <<>>
    /\ cache_file # <<>>
    /\ LastRun.meetings = <<>>

\* the meetings the run downloaded: the folders of its upload batch
BatchNotes ==
    {LastRun.meetings[j] : j \in {i \in 1..Len(LastRun.meetings) :
                                      LastRun.meetings[i].result = "downloaded"}}

\* one of them is of a type the README table lists (line 337)
BatchHasACD ==
    \E note \in BatchNotes :
        extract_meeting_info(note.recording.topic).meeting_type \in {"ACDE", "ACDT", "ACDC"}

\* the files of the folders of the batch are in the repository
BatchPublished ==
    /\ processed_folders # <<>>
    /\ folder_repo_paths(processed_folders, downloads) \subseteq repo_paths

\* C23 as stated: the README table is regenerated only after the batch upload
\* of the run succeeded, and only if the batch uploaded in that run holds a
\* meeting of type ACDE, ACDT or ACDC
C23_ReadmeOnlyForBatchWithACD ==
    run_pc = "readme" => BatchPublished /\ BatchHasACD

\* the notes of the meetings whose recording is shorter than ten minutes
ShortNotes ==
    {rn \in RunNotes : /\ rn.note.recording # NoRecording
                       /\ duration_of(rn.note.recording) < MIN_DURATION}

\* C24: a recording shorter than ten minutes is never downloaded, cached or
\* uploaded: its meeting is counted as skipped-short, the step that skips it
\* changes neither the cache nor the downloads nor the batch, its key is not
\* in the cache file the run writes, and the next run does not skip it as
\* cached
C24_ShortNeverProcessed ==
    /\ [](\A rn \in ShortNotes :
            /\ rn.note.result = "short"
            /\ rn.note.folder = ""
            /\ (rn.run = LastRun /\ run_outcome = "finished")
                  => ~cache_has(cache_file, rn.note.key))
    /\ [](zoom_recording # NoRecording => duration_of(zoom_recording) >= MIN_DURATION)
    /\ [](Len(trail) = 2 =>
            \A j \in 1..Len(trail[2].meetings) :
                (\E rn \in ShortNotes : /\ rn.run = trail[1]
                                        /\ rn.run.cache_written
                                        /\ rn.note.key = trail[2].meetings[j].key)
                   => trail[2].meetings[j].result # "cached")
    /\ [][(/\ Len(trail) > 0
            /\ Len(trail') = Len(trail)
            /\ Len(LastRun'.meetings) = Len(LastRun.meetings) + 1
            /\ LastRun'.meetings[Len(LastRun'.meetings)].result = "short")
             => /\ counts'.skipped_short = counts.skipped_short + 1
                /\ UNCHANGED <<processed_cache, downloads, processed_folders,
                               repo_paths, cache_file, failed_matches>>]_vars

\* a second run handles again the meeting the first run skipped as short
C24_Witness ==
    /\ Len(trail) = 2
    /\ trail[1].cache_written
    /\ ~args.force_reprocess
    /\ \E rn \in ShortNotes :
        /\ rn.run = trail[1]
        /\ \E j \in 1..Len(LastRun.meetings) :
            /\ LastRun.meetings[j].key = rn.note.key
            /\ LastRun.meetings[j].result = "short"

\* C25 as stated: a cache entry gets the status 'uploaded' only from a run
\* whose batch upload succeeded and held its folder; an entry whose batch
\* upload failed is not marked by a later run that did not upload its folder
C25_MarkedOnlyByOwnBatch ==
    [][run_pc = "upload" =>
        \A k \in 1..Len(processed_cache) :
            (/\ processed_cache'[k].data.status = Some("uploaded")
             /\ processed_cache[k].data.status # Some("uploaded"))
                => /\ \E note \in BatchNotes : note.key = processed_cache[k].key
                   /\ folder_repo_paths(processed_folders, downloads) \subseteq repo_paths']_vars

\* C26 as stated: the cache file only grows: no step of a run, whatever its
\* flags, takes a key out of it
C26_CacheOnlyGrows ==
    [][\A k \in 1..Len(cache_file) : cache_has(cache_file', cache_file[k].key)]_vars

-----------------------------------------------------------------------------
(* Claims about the cache over several runs, under SpecRepeat.              *)

\* how often the handling of the key ended with a download
TimesDownloaded(key) ==
    Cardinality({j \in 1..Len(rep_log) : /\ rep_log[j].key = key
                                         /\ rep_log[j].result = "downloaded"})

\* C27 as stated: over any sequence of runs none of which is forced, each
\* meeting key is downloaded at most once
C27_DownloadedAtMostOnce ==
    (~rep_forced /\ \A j \in 1..Len(rep_log) : ~rep_log[j].forced)
        => \A key \in RepeatKeys : TimesDownloaded(key) <= 1

-----------------------------------------------------------------------------
(* Claims about the published paths, under SpecRun.                         *)

\* the path check_if_exists_on_github asks for, for the recording of a note
ProbedPath(note) ==
    exists_path(extract_meeting_info(note.recording.topic).meeting_type,
                extract_meeting_info(note.recording.topic).meeting_num,
                start_date_of(note.recording))

\* the path batch_upload_to_github gives the metadata.json of the folder of
\* a note
PublishedMetadataPath(note) == github_path(note.folder \o "/metadata.json")

\* C28 as stated: the path probed for a meeting is the path under which the
\* metadata of its folder is stored and published
C28_ProbeIsPublishedPath ==
    \A rn \in RunNotes :
        rn.note.result = "downloaded" => ProbedPath(rn.note) = PublishedMetadataPath(rn.note)

-----------------------------------------------------------------------------
(* Further claims about update_readme_table, under SpecReadme.              *)

\* how many lines of the text are rows of the meeting
RowsFor(content, pair) ==
    Cardinality({i \in 1..Len(split_on(content, "n")) :
                    row_meeting(split_on(content, "n")[i]) = {pair}})

\* the rows of the meeting the k-th call added
RowsAdded(k, pair) ==
    RowsFor(update_log[k].after.content, pair) - RowsFor(update_log[k].before.content, pair)

\* C29 as stated: the rows a call of update_readme_table adds hold each
\* (type, number) pair at most once, and none of them repeats a pair the
\* table held before the call
C29_AddedRowsUnique ==
    \A k \in 1..Len(update_log) :
        update_log[k].changed =>
            \A pair \in CacheMeetings :
                /\ RowsAdded(k, pair) <= 1
                /\ pair \in parse_existing_meetings(update_log[k].before.content)
                      => RowsAdded(k, pair) = 0

-----------------------------------------------------------------------------
(* Claims about the downloaded artifacts, under SpecRun.                    *)

\* download_file stored the transcript or the chat of the recording of the
\* note
ArtifactStored(note) ==
    \E i \in 1..Len(note.recording.files) :
        /\ note.recording.files[i] \in {"TRANSCRIPT", "CHAT"}
        /\ note.answers[i] = "ok"

\* C30 as stated: a meeting gets the status 'downloaded' and its folder
\* enters the upload batch only if its transcript or its chat was fetched
\* and stored
C30_DownloadedOnlyWithArtifact ==
    \A rn \in RunNotes : rn.note.result = "downloaded" => ArtifactStored(rn.note)

====
